---- MODULE Spec2Model ----
(***************************************************************************)
(* AstroView disaster intelligence: the risk scorers and the composite     *)
(* index of disasterRiskEngine.js, the alert derivation of                 *)
(* useDisasterData.js and the cached fetchers of disasterService.js.       *)
(*                                                                         *)
(* Numbers.  Millimetres, degrees Celsius, percent, km/h and kilometres    *)
(* are integers.  Earthquake magnitudes are in tenths (65 is M6.5).  The   *)
(* scorer clock is in hours.  A JavaScript value that is null or undefined *)
(* is the record Null; a numeric field that is missing is 0 wherever the   *)
(* source reads it through "|| 0" or a comparison that is false for both.  *)
(***************************************************************************)
EXTENDS Integers, Sequences, FiniteSets, TLC

VARIABLES
    floodArgs,          \* arguments of calculateFloodRisk: precipData, currentWeather
    wildfireArgs,       \* arguments of calculateWildfireRisk: weather, precipData
    earthquakeArgs,     \* argument of calculateEarthquakeRisk: Null or [items |-> list]
    cycloneArgs,        \* arguments of calculateCycloneRisk: storms, alerts
    heatwaveArg,        \* argument of calculateHeatwaveRiskScore
    now,                \* Date.now() as read by calculateEarthquakeRisk, in hours
    floodRisk,          \* useDisasterData state, set from calculateFloodRisk
    wildfireRisk,       \* useDisasterData state, set from calculateWildfireRisk
    earthquakeRisk,     \* useDisasterData state, set from calculateEarthquakeRisk
    cycloneRisk,        \* useDisasterData state, set from calculateCycloneRisk
    heatwaveRisk,       \* result of calculateHeatwaveRiskScore
    disasterRiskIndex,  \* useMemo over the five risks
    activeAlerts,       \* useMemo over the four scored risks
    pc,                 \* the next scorer to be called
    clock,              \* Date.now() as read by disasterService.js, in units of ten minutes
    cache,              \* the Map of disasterService.js: key -> Null or [data, timestamp]
    inflight,           \* fetcher calls waiting for the provider's response
    fetchCount,         \* number of provider requests made so far
    stored,             \* history: per key, the payloads stored so far, in order
    returned,           \* the most recent return of a fetcher, with the call it answers
    mounted,            \* useDisasterData: the component that uses the hook is mounted
    location,           \* the hook's location argument: Null or [latitude, longitude]
    climateData,        \* the hook's climateData argument: Null or [current, heatwaveRisk]
    timers,             \* the intervals registered with setInterval and not cleared
    effects,            \* number of runs of the effect of lines 91-97 so far
    tornDown,           \* history: the effect runs whose cleanup has been called
    ticked,             \* history: the interval callbacks run so far
    cycles,             \* the fetchAllData calls suspended at await Promise.all, oldest first
    loading,            \* useDisasterData state
    error,              \* useDisasterData state: Null or [message |-> string]
    lastUpdated,        \* useDisasterData state: Null or [date |-> time]
    settled,            \* history: how the three fetches of the last finished cycle ended
    agriClock,          \* Date.now() as read by agricultureService.js, in units of five minutes
    agriCache,          \* the Map of agricultureService.js: key -> Null or [data, timestamp]
    agriCalls,          \* getCachedOrFetch calls suspended at await fetchFn()
    agriContacts,       \* history: per key, the number of requests sent to the provider
    agriOrigin,         \* history: per key, how the request behind the held entry ended
    agriReturned,       \* the most recent return of getCachedOrFetch, with the call it answers
    climateMounted,     \* useClimateData: the component that uses the hook is mounted
    climateCoords,      \* the hook's coords argument: Null or [lat, lon]
    isActive,           \* the hook's isActive argument
    climateState,       \* the six useState values of useClimateData
    controllerRef,      \* controllerRef.current: 0 (null) or the number of an AbortController
    intervalRef,        \* intervalRef.current: 0 (null) or the id of an interval
    controllers,        \* the AbortControllers created so far: for each, signal.aborted
    intervals,          \* the intervals registered and not cleared, with the fetchAll they call
    fetches,            \* the fetchAll calls suspended at await Promise.allSettled
    resumed             \* the fetchAll call that resumed last, with signal.aborted as it read it

engineVars == <<floodArgs, wildfireArgs, earthquakeArgs, cycloneArgs, heatwaveArg,
                now, floodRisk, wildfireRisk, earthquakeRisk, cycloneRisk,
                heatwaveRisk, disasterRiskIndex, activeAlerts, pc>>

serviceVars == <<clock, cache, inflight, fetchCount, stored, returned>>

hookVars == <<mounted, location, climateData, timers, effects, tornDown, ticked, cycles,
              loading, error, lastUpdated, settled>>

agriVars == <<agriClock, agriCache, agriCalls, agriContacts, agriOrigin, agriReturned>>

climateVars == <<climateMounted, climateCoords, isActive, climateState, controllerRef,
                 intervalRef, controllers, intervals, fetches, resumed>>

vars == <<engineVars, serviceVars, hookVars, agriVars, climateVars>>

-----------------------------------------------------------------------------
(* JavaScript helpers *)

Null == [null |-> TRUE]
IsNull(r) == "null" \in DOMAIN r

\* a || b on numbers: the left operand unless it is falsy (0)
Or(a, b) == IF a # 0 THEN a ELSE b

Min(a, b) == IF a < b THEN a ELSE b
Max(a, b) == IF a > b THEN a ELSE b

-----------------------------------------------------------------------------
(* disasterRiskEngine.js *)

\* getRiskLevel with > in place of >=
getRiskLevelStrict(score) ==
    IF score > 85 THEN "EXTREME"
    ELSE IF score > 60 THEN "HIGH"
    ELSE IF score > 35 THEN "MODERATE"
    ELSE "LOW"

getRiskLevel(score) ==
    IF score >= 85 THEN "EXTREME"
    ELSE IF score >= 60 THEN "HIGH"
    ELSE IF score >= 35 THEN "MODERATE"
    ELSE "LOW"

FloodReasoning(score) ==
    IF score >= 60 THEN "Heavy rainfall accumulation creating significant flood risk"
    ELSE IF score >= 35 THEN "Elevated precipitation may cause localized flooding"
    ELSE IF score >= 15 THEN "Moderate rainfall detected, monitor conditions"
    ELSE "Normal precipitation levels"

\* FloodSum with a rain day counted from 1 mm on (p >= 1) instead of p > 1
FloodSumWetDay(precipData, currentWeather) ==
    LET total7Day == precipData.total7Day
        total3Day == precipData.total3Day
        currentPrecip == IF IsNull(currentWeather) THEN 0 ELSE currentWeather.precipitation
        rainDays == Cardinality({i \in DOMAIN precipData.precipitation :
                                     precipData.precipitation[i] >= 1})
    IN  (IF total7Day > 150 THEN 40 ELSE IF total7Day > 100 THEN 25
         ELSE IF total7Day > 50 THEN 10 ELSE 0)
      + (IF total3Day > 100 THEN 35 ELSE IF total3Day > 60 THEN 20
         ELSE IF total3Day > 30 THEN 8 ELSE 0)
      + (IF currentPrecip # 0
         THEN (IF currentPrecip > 10 THEN 25 ELSE IF currentPrecip > 5 THEN 15 ELSE 0)
         ELSE 0)
      + (IF rainDays >= 5 THEN 15 ELSE IF rainDays >= 3 THEN 8 ELSE 0)

FloodSum(precipData, currentWeather) ==
    LET total7Day == precipData.total7Day
        total3Day == precipData.total3Day
        currentPrecip == IF IsNull(currentWeather) THEN 0 ELSE currentWeather.precipitation
        rainDays == Cardinality({i \in DOMAIN precipData.precipitation :
                                     precipData.precipitation[i] > 1})
    IN  (IF total7Day > 150 THEN 40 ELSE IF total7Day > 100 THEN 25
         ELSE IF total7Day > 50 THEN 10 ELSE 0)
      + (IF total3Day > 100 THEN 35 ELSE IF total3Day > 60 THEN 20
         ELSE IF total3Day > 30 THEN 8 ELSE 0)
      + (IF currentPrecip # 0
         THEN (IF currentPrecip > 10 THEN 25 ELSE IF currentPrecip > 5 THEN 15 ELSE 0)
         ELSE 0)
      + (IF rainDays >= 5 THEN 15 ELSE IF rainDays >= 3 THEN 8 ELSE 0)

\* calculateFloodRisk without the Math.min(100, score) of line 92
calculateFloodRiskUnclamped(precipData, currentWeather) ==
    IF IsNull(precipData)
    THEN [score |-> 0, level |-> "LOW",
          reasoning |-> "Insufficient precipitation data available"]
    ELSE LET score == FloodSum(precipData, currentWeather)
         IN  [score |-> score, level |-> "LOW", reasoning |-> FloodReasoning(score)]

\* getFloodRecommendations(level.label)
getFloodRecommendations(level) ==
    IF level \in {"EXTREME", "SEVERE"}
    THEN <<"Evacuate if authorities advise", "Move to higher ground immediately",
           "Avoid walking or driving through flood water", "Prepare emergency supplies">>
    ELSE IF level = "HIGH"
    THEN <<"Prepare emergency supplies", "Identify evacuation routes",
           "Avoid low-lying areas", "Do not attempt to cross flooded roads">>
    ELSE IF level = "MODERATE"
    THEN <<"Stay informed of weather conditions", "Avoid flood-prone areas",
           "Keep emergency kit accessible">>
    ELSE <<"Monitor local weather updates">>

calculateFloodRisk(precipData, currentWeather) ==
    IF IsNull(precipData)
    THEN [score |-> 0, level |-> "LOW",
          reasoning |-> "Insufficient precipitation data available"]
    ELSE LET score == Min(100, FloodSum(precipData, currentWeather))
         IN  [score |-> score, level |-> getRiskLevel(score),
              reasoning |-> FloodReasoning(score),
              recommendations |-> getFloodRecommendations(getRiskLevel(score))]

WildfireReasoning(score) ==
    IF score >= 60 THEN "Extreme fire weather: high temp, low humidity, strong winds"
    ELSE IF score >= 35 THEN "Elevated fire risk due to dry and warm conditions"
    ELSE IF score >= 15 THEN "Mild fire weather, maintain awareness"
    ELSE "Normal fire weather conditions"

WildfireSum(weather, precipData) ==
    LET temp == Or(weather.temperature, Or(weather.temperature_2m, 0))
        humidity == Or(weather.humidity, Or(weather.relative_humidity_2m, 50))
        windSpeed == Or(weather.windSpeed, Or(weather.wind_speed_10m, 0))
    IN  (IF temp > 40 THEN 30 ELSE IF temp > 35 THEN 20 ELSE IF temp > 30 THEN 10 ELSE 0)
      + (IF humidity < 20 THEN 30 ELSE IF humidity < 30 THEN 20
         ELSE IF humidity < 40 THEN 10 ELSE 0)
      + (IF windSpeed > 40 THEN 25 ELSE IF windSpeed > 25 THEN 15
         ELSE IF windSpeed > 15 THEN 5 ELSE 0)
      + (IF IsNull(precipData) THEN 0
         ELSE IF precipData.total7Day < 2 THEN 20
         ELSE IF precipData.total7Day < 10 THEN 10 ELSE 0)

\* getWildfireRecommendations(level.label)
getWildfireRecommendations(level) ==
    IF level = "EXTREME"
    THEN <<"Be prepared to evacuate immediately", "Create defensible space around property",
           "Have emergency bag ready", "Monitor emergency channels">>
    ELSE IF level = "HIGH"
    THEN <<"Avoid outdoor burning", "Clear dry vegetation from property",
           "Have evacuation plan ready", "Keep emergency supplies accessible">>
    ELSE IF level = "MODERATE"
    THEN <<"Exercise caution with outdoor activities",
           "Ensure fire extinguishers are available",
           "Report any smoke or fire immediately">>
    ELSE <<"Follow local fire advisories">>

calculateWildfireRisk(weather, precipData) ==
    IF IsNull(weather)
    THEN [score |-> 0, level |-> "LOW", reasoning |-> "Insufficient weather data"]
    ELSE LET score == Min(100, WildfireSum(weather, precipData))
         IN  [score |-> score, level |-> getRiskLevel(score),
              reasoning |-> WildfireReasoning(score),
              recommendations |-> getWildfireRecommendations(getRiskLevel(score))]

EarthquakeReasoning(score) ==
    IF score >= 60 THEN "Significant seismic activity detected - aftershocks possible"
    ELSE IF score >= 35 THEN "Moderate earthquake activity in region"
    ELSE IF score >= 15 THEN "Minor seismic activity detected"
    ELSE "No significant seismic events in your area"

\* 24 * 60 * 60 * 1000 ms, in hours
DAY_MS == 24

\* earthquakes.reduce((max, eq) => eq.magnitude > max.magnitude ? eq : max, earthquakes[0])
RECURSIVE StrongestFrom(_, _, _)
StrongestFrom(earthquakes, i, max) ==
    IF i > Len(earthquakes) THEN max
    ELSE StrongestFrom(earthquakes, i + 1,
                       IF earthquakes[i].magnitude > max.magnitude
                       THEN earthquakes[i] ELSE max)

StrongestQuake(earthquakes) == StrongestFrom(earthquakes, 1, earthquakes[1])

\* earthquakes.filter(eq => (now - eq.time) < 24h && eq.distance < 500).length
Recent24h(earthquakes, t) ==
    Cardinality({i \in DOMAIN earthquakes :
                    (t - earthquakes[i].time) < DAY_MS /\ earthquakes[i].distance < 500})

\* EarthquakeSum with the tsunami factor read from the strongest event alone
EarthquakeSumStrongestTsunami(earthquakes, t) ==
    LET strongest == StrongestQuake(earthquakes)
        recent == Recent24h(earthquakes, t)
        tsunamiRisk == strongest.tsunami /\ strongest.magnitude >= 70
    IN  (IF strongest.magnitude >= 60 THEN 40 ELSE IF strongest.magnitude >= 50 THEN 25
         ELSE IF strongest.magnitude >= 40 THEN 10 ELSE 0)
      + (IF strongest.distance < 100 THEN 25 ELSE IF strongest.distance < 300 THEN 15
         ELSE IF strongest.distance < 500 THEN 5 ELSE 0)
      + (IF recent >= 5 THEN 20 ELSE IF recent >= 3 THEN 10 ELSE 0)
      + (IF tsunamiRisk THEN 15 ELSE 0)

EarthquakeSum(earthquakes, t) ==
    LET strongest == StrongestQuake(earthquakes)
        recent == Recent24h(earthquakes, t)
        tsunamiRisk == \E i \in DOMAIN earthquakes :
                          earthquakes[i].tsunami /\ earthquakes[i].magnitude >= 70
    IN  (IF strongest.magnitude >= 60 THEN 40 ELSE IF strongest.magnitude >= 50 THEN 25
         ELSE IF strongest.magnitude >= 40 THEN 10 ELSE 0)
      + (IF strongest.distance < 100 THEN 25 ELSE IF strongest.distance < 300 THEN 15
         ELSE IF strongest.distance < 500 THEN 5 ELSE 0)
      + (IF recent >= 5 THEN 20 ELSE IF recent >= 3 THEN 10 ELSE 0)
      + (IF tsunamiRisk THEN 15 ELSE 0)

\* getEarthquakeRecommendations(level.label)
getEarthquakeRecommendations(level) ==
    IF level \in {"EXTREME", "SEVERE"}
    THEN <<"Expect aftershocks - stay alert", "Avoid damaged buildings",
           "Check for gas leaks and hazards", "Listen to emergency broadcasts">>
    ELSE IF level = "HIGH"
    THEN <<"Review earthquake safety procedures", "Secure heavy furniture and objects",
           "Know your evacuation routes", "Keep emergency supplies ready">>
    ELSE IF level = "MODERATE"
    THEN <<"Be aware of seismic activity", "Ensure emergency kit is stocked",
           "Know Drop, Cover, Hold On procedure">>
    ELSE <<"Standard earthquake preparedness advised">>

\* the argument is Null or [items |-> the event list]; t is Date.now()
calculateEarthquakeRisk(earthquakes, t) ==
    IF IsNull(earthquakes) \/ Len(earthquakes.items) = 0
    THEN [score |-> 0, level |-> "LOW",
          reasoning |-> "No significant seismic activity detected nearby"]
    ELSE LET score == Min(100, EarthquakeSum(earthquakes.items, t))
         IN  [score |-> score, level |-> getRiskLevel(score),
              reasoning |-> EarthquakeReasoning(score),
              recommendations |-> getEarthquakeRecommendations(getRiskLevel(score))]

CycloneReasoning(score) ==
    IF score >= 60 THEN "Active severe storm system in area"
    ELSE IF score >= 35 THEN "Storm conditions present - monitor closely"
    ELSE IF score >= 15 THEN "Weather disturbance detected"
    ELSE "No significant storm activity"

\* storms.reduce((max, s) => (s.windSpeed || 0) > (max.windSpeed || 0) ? s : max, storms[0])
RECURSIVE StrongestStormFrom(_, _, _)
StrongestStormFrom(storms, i, max) ==
    IF i > Len(storms) THEN max
    ELSE StrongestStormFrom(storms, i + 1,
                            IF storms[i].windSpeed > max.windSpeed THEN storms[i] ELSE max)

StrongestStorm(storms) == StrongestStormFrom(storms, 1, storms[1])

\* CycloneSum that adds nothing for alerts none of which is HIGH
CycloneSumSevereOnly(storms, alerts) ==
    LET strongest == StrongestStorm(storms)
        severeAlerts == Cardinality({i \in DOMAIN alerts : alerts[i].severity = "HIGH"})
    IN  (IF Len(storms) > 0
         THEN (IF strongest.category >= 3 THEN 50
               ELSE IF strongest.category >= 1 THEN 35
               ELSE IF strongest.type = "Tropical Storm" THEN 20 ELSE 0)
            + (IF strongest.windGusts > 120 THEN 25
               ELSE IF strongest.windGusts > 80 THEN 15 ELSE 0)
         ELSE 0)
      + (IF severeAlerts > 0 THEN 20 ELSE 0)

\* a storm's category is 1..5, or 0 for the non-numeric values "TS", "TD" and null,
\* for which both category >= 3 and category >= 1 are false
CycloneSum(storms, alerts) ==
    LET strongest == StrongestStorm(storms)
        severeAlerts == Cardinality({i \in DOMAIN alerts : alerts[i].severity = "HIGH"})
    IN  (IF Len(storms) > 0
         THEN (IF strongest.category >= 3 THEN 50
               ELSE IF strongest.category >= 1 THEN 35
               ELSE IF strongest.type = "Tropical Storm" THEN 20 ELSE 0)
            + (IF strongest.windGusts > 120 THEN 25
               ELSE IF strongest.windGusts > 80 THEN 15 ELSE 0)
         ELSE 0)
      + (IF Len(alerts) > 0 THEN (IF severeAlerts > 0 THEN 20 ELSE 10) ELSE 0)

\* storms and alerts are each Null or [items |-> list]
ItemsOf(list) == IF IsNull(list) THEN <<>> ELSE list.items

\* getCycloneRecommendations(level.label)
getCycloneRecommendations(level) ==
    IF level \in {"EXTREME", "SEVERE"}
    THEN <<"Evacuate if instructed by authorities", "Seek shelter in a sturdy building",
           "Stay away from windows", "Have emergency supplies ready">>
    ELSE IF level = "HIGH"
    THEN <<"Prepare for possible evacuation", "Secure outdoor objects",
           "Stock emergency supplies", "Charge all devices">>
    ELSE IF level = "MODERATE"
    THEN <<"Monitor weather updates", "Review emergency plans",
           "Ensure supplies are accessible">>
    ELSE <<"Stay informed of weather conditions">>

calculateCycloneRisk(storms, alerts) ==
    IF Len(ItemsOf(storms)) = 0 /\ Len(ItemsOf(alerts)) = 0
    THEN [score |-> 0, level |-> "LOW", reasoning |-> "No active storm systems detected"]
    ELSE LET score == Min(100, CycloneSum(ItemsOf(storms), ItemsOf(alerts)))
         IN  [score |-> score, level |-> getRiskLevel(score),
              reasoning |-> CycloneReasoning(score),
              recommendations |-> getCycloneRecommendations(getRiskLevel(score))]

\* levelMap that takes an unlisted level for LOW
levelMapUnlistedLow(level) ==
    IF level = "HIGH" THEN 75 ELSE IF level = "MODERATE" THEN 40 ELSE 10

\* levelMap[heatwaveRisk.level] || 0
levelMap(level) ==
    IF level = "HIGH" THEN 75 ELSE IF level = "MODERATE" THEN 40
    ELSE IF level = "LOW" THEN 10 ELSE 0

\* the result has the two fields score and level only
calculateHeatwaveRiskScore(heatwave) ==
    IF IsNull(heatwave) THEN [score |-> 0, level |-> "LOW"]
    ELSE LET score == levelMap(heatwave.level)
         IN  [score |-> score, level |-> getRiskLevel(score)]

-----------------------------------------------------------------------------
(* calculateDisasterRiskIndex *)

HazardKeys == <<"flood", "wildfire", "earthquake", "cyclone", "heatwave">>

\* the weights 0.25, 0.20, 0.20, 0.25, 0.10 in hundredths
weights == [flood |-> 25, wildfire |-> 20, earthquake |-> 20, cyclone |-> 25,
            heatwave |-> 10]

\* risk?.score || 0
ScoreOrZero(risk) == IF IsNull(risk) THEN 0 ELSE risk.score

IndexScores(risks) ==
    [flood |-> ScoreOrZero(risks.floodRisk),
     wildfire |-> ScoreOrZero(risks.wildfireRisk),
     earthquake |-> ScoreOrZero(risks.earthquakeRisk),
     cyclone |-> ScoreOrZero(risks.cycloneRisk),
     heatwave |-> ScoreOrZero(risks.heatwaveRisk)]

\* weightedScore, in hundredths
weightedScore(scores) ==
    scores.flood * weights.flood + scores.wildfire * weights.wildfire
    + scores.earthquake * weights.earthquake + scores.cyclone * weights.cyclone
    + scores.heatwave * weights.heatwave

highRiskCountOf(scores) == Cardinality({i \in DOMAIN HazardKeys : scores[HazardKeys[i]] >= 60})

\* amplification with highRiskCount > 0 in place of highRiskCount > 1
amplificationFromOne(highRiskCount) == IF highRiskCount > 0 THEN 10 + highRiskCount ELSE 10

\* amplification that damps: 1 - highRiskCount * 0.1
amplificationDamping(highRiskCount) == IF highRiskCount > 1 THEN 10 - highRiskCount ELSE 10

\* highRiskCount > 1 ? 1 + highRiskCount * 0.1 : 1, in tenths
amplification(highRiskCount) == IF highRiskCount > 1 THEN 10 + highRiskCount ELSE 10

\* Math.round of a non-negative number given in thousandths: halves go up
RoundThousandths(x) == (x + 500) \div 1000

\* Math.min(100, Math.round(weightedScore * amplification)).  The source computes
\* the product in IEEE doubles; on integer scores that the five scorers can return
\* the double product rounds to the same integer as the exact product.
finalScoreOf(scores) ==
    Min(100, RoundThousandths(weightedScore(scores) * amplification(highRiskCountOf(scores))))

\* Object.entries(scores).reduce((max, [key, score]) =>
\*     score > max.score ? {key, score} : max, {key: null, score: 0})
RECURSIVE MaxRiskFrom(_, _, _)
MaxRiskFrom(scores, i, max) ==
    IF i > Len(HazardKeys) THEN max
    ELSE MaxRiskFrom(scores, i + 1,
                     IF scores[HazardKeys[i]] > max.score
                     THEN [key |-> HazardKeys[i], score |-> scores[HazardKeys[i]]]
                     ELSE max)

\* the reduce with score >= max.score: the last of the greatest scores wins
RECURSIVE MaxRiskLastFrom(_, _, _)
MaxRiskLastFrom(scores, i, max) ==
    IF i > Len(HazardKeys) THEN max
    ELSE MaxRiskLastFrom(scores, i + 1,
                         IF scores[HazardKeys[i]] >= max.score
                         THEN [key |-> HazardKeys[i], score |-> scores[HazardKeys[i]]]
                         ELSE max)

maxRiskLast(scores) == MaxRiskLastFrom(scores, 1, [key |-> "", score |-> 0])

\* key "" stands for key: null
maxRisk(scores) == MaxRiskFrom(scores, 1, [key |-> "", score |-> 0])

ConcernName(key) ==
    IF key = "flood" THEN "Flooding"
    ELSE IF key = "wildfire" THEN "Wildfire"
    ELSE IF key = "earthquake" THEN "Earthquake"
    ELSE IF key = "cyclone" THEN "Storm/Cyclone"
    ELSE IF key = "heatwave" THEN "Extreme Heat"
    ELSE "None"

calculateDisasterRiskIndex(risks) ==
    LET scores == IndexScores(risks)
        finalScore == finalScoreOf(scores)
    IN  [score |-> finalScore,
         level |-> getRiskLevel(finalScore),
         primaryConcern |-> ConcernName(maxRisk(scores).key),
         breakdown |-> scores,
         highRiskCount |-> highRiskCountOf(scores)]

-----------------------------------------------------------------------------
(* useDisasterData.js: activeAlerts *)

\* risk?.score >= 35
Alerting(risk) == ~IsNull(risk) /\ risk.score >= 35

AlertOf(type, risk) ==
    IF Alerting(risk)
    THEN <<[type |-> type, severity |-> risk.level, message |-> risk.reasoning]>>
    ELSE <<>>

severityOrder(severity) ==
    IF severity = "EXTREME" THEN 0 ELSE IF severity = "SEVERE" THEN 1
    ELSE IF severity = "HIGH" THEN 2 ELSE IF severity = "MODERATE" THEN 3
    ELSE IF severity = "LOW" THEN 4 ELSE 0

\* severityOrder[a.severity] || 4: a rank of 0 is falsy and becomes 4
SortKey(alert) == Or(severityOrder(alert.severity), 4)

\* Array.prototype.sort is stable: an alert goes after the alerts already placed
\* whose key is not greater than its own
RECURSIVE InsertAlert(_, _)
InsertAlert(sorted, alert) ==
    IF sorted = <<>> THEN <<alert>>
    ELSE IF SortKey(sorted[Len(sorted)]) <= SortKey(alert) THEN Append(sorted, alert)
    ELSE Append(InsertAlert(SubSeq(sorted, 1, Len(sorted) - 1), alert), sorted[Len(sorted)])

RECURSIVE SortAlerts(_)
SortAlerts(alerts) ==
    IF alerts = <<>> THEN <<>>
    ELSE InsertAlert(SortAlerts(SubSeq(alerts, 1, Len(alerts) - 1)), alerts[Len(alerts)])

ActiveAlertsOf(eqRisk, cycRisk, flRisk, wfRisk) ==
    SortAlerts(AlertOf("EARTHQUAKE", eqRisk) \o AlertOf("STORM", cycRisk)
               \o AlertOf("FLOOD", flRisk) \o AlertOf("WILDFIRE", wfRisk))

-----------------------------------------------------------------------------
(* disasterService.js: storm classification *)

\* Math.max(windSpeed, windGusts * 0.8) >= limit
MaxWindAtLeast(windSpeed, windGusts, limit) ==
    windSpeed >= limit \/ windGusts * 8 >= limit * 10

\* category 0 stands for the non-numeric categories "TS", "TD" and null
getStormCategory(windSpeed, windGusts) ==
    IF MaxWindAtLeast(windSpeed, windGusts, 252) THEN [type |-> "Hurricane", category |-> 5]
    ELSE IF MaxWindAtLeast(windSpeed, windGusts, 209) THEN [type |-> "Hurricane", category |-> 4]
    ELSE IF MaxWindAtLeast(windSpeed, windGusts, 178) THEN [type |-> "Hurricane", category |-> 3]
    ELSE IF MaxWindAtLeast(windSpeed, windGusts, 154) THEN [type |-> "Hurricane", category |-> 2]
    ELSE IF MaxWindAtLeast(windSpeed, windGusts, 119) THEN [type |-> "Hurricane", category |-> 1]
    ELSE IF MaxWindAtLeast(windSpeed, windGusts, 63)
         THEN [type |-> "Tropical Storm", category |-> 0]
    ELSE IF MaxWindAtLeast(windSpeed, windGusts, 40)
         THEN [type |-> "Tropical Depression", category |-> 0]
    ELSE [type |-> "Storm", category |-> 0]

\* the storm record pushed by detectStormConditions
StormOf(windSpeed, windGusts) ==
    LET category == getStormCategory(windSpeed, windGusts)
    IN  [type |-> category.type, category |-> category.category,
         windSpeed |-> windSpeed, windGusts |-> windGusts]

-----------------------------------------------------------------------------
(* Observations the scorers are called on *)

MaxWetDays == 5
MaxSwarm == 5

\* a daily series with k days above 1 mm followed by two dry days
Series(k) == [i \in 1..(k + 2) |-> IF i <= k THEN 5 ELSE 1]

ScenarioASeries == <<5, 3, 8, 20, 15, 30, 12>>

PrecipOf(t7, t3, series) == [total7Day |-> t7, total3Day |-> t3, precipitation |-> series]

\* an observation that carries the four readings under the short field names;
\* h = 0 is a reading of 0 percent relative humidity
WeatherOf(t, h, w, p) ==
    [temperature |-> t, humidity |-> h, windSpeed |-> w, precipitation |-> p,
     temperature_2m |-> 0, relative_humidity_2m |-> 0, wind_speed_10m |-> 0]

\* an Open-Meteo "current" block: only the raw field names are set
RawWeatherOf(t, h, w) ==
    [temperature |-> 0, humidity |-> 0, windSpeed |-> 0, precipitation |-> 0,
     temperature_2m |-> t, relative_humidity_2m |-> h, wind_speed_10m |-> w]

NoFloodArgs == [precipData |-> Null, currentWeather |-> Null]
NoWildfireArgs == [weather |-> Null, precipData |-> Null]
NoCycloneArgs == [storms |-> Null, alerts |-> Null]

FloodInputs ==
    {[precipData |-> PrecipOf(t7, t3, Series(k)), currentWeather |-> w] :
        t7 \in {0, 50, 51, 100, 101, 150, 151}, t3 \in {0, 30, 31, 60, 61, 100, 101},
        k \in 0..MaxWetDays,
        w \in {Null} \cup {WeatherOf(20, 50, 0, p) : p \in {0, 5, 6, 10, 11}}}
    \cup {[precipData |-> Null, currentWeather |-> w] :
            w \in {Null, WeatherOf(20, 50, 0, 11)}}

WildfireInputs ==
    {[weather |-> WeatherOf(t, h, w, 0), precipData |-> p] :
        t \in {0, 30, 31, 35, 36, 40, 41}, h \in {0, 15, 20, 25, 30, 35, 40},
        w \in {0, 15, 16, 25, 26, 40, 41},
        p \in {Null} \cup {PrecipOf(t7, 0, <<>>) : t7 \in {0, 1, 2, 9, 10}}}
    \cup {[weather |-> RawWeatherOf(t, h, w), precipData |-> Null] :
            t \in {0, 42}, h \in {0, 15}, w \in {0, 45}}
    \cup {[weather |-> Null, precipData |-> p] : p \in {Null, PrecipOf(0, 0, <<>>)}}

NowStart == 48

QuakeOf(m, d, t, ts) == [magnitude |-> m, distance |-> d, time |-> t, tsunami |-> ts]

\* a small recent event nearby
Aftershock == QuakeOf(30, 200, NowStart - 1, FALSE)

Aftershocks(n) == [i \in 1..n |-> Aftershock]

MainQuakes ==
    {QuakeOf(m, d, t, ts) : m \in {35, 40, 50, 60, 65, 70}, d \in {50, 100, 299, 300, 500},
                            t \in {NowStart - 1, NowStart - DAY_MS}, ts \in BOOLEAN}

OtherQuakes ==
    {QuakeOf(70, 600, NowStart - DAY_MS, TRUE), QuakeOf(65, 50, NowStart - 1, FALSE),
     QuakeOf(40, 499, NowStart - 1, TRUE)}

QuakeLists ==
    {<<>>} \cup {<<e>> \o Aftershocks(n) : e \in MainQuakes, n \in 0..MaxSwarm}
    \cup {<<e, o>> \o Aftershocks(n) : e \in MainQuakes, o \in OtherQuakes, n \in {0, 3}}
    \cup {<<o, e>> \o Aftershocks(n) : e \in MainQuakes, o \in OtherQuakes, n \in {0, 3}}

EarthquakeInputs == {Null} \cup {[items |-> l] : l \in QuakeLists}

Storms == {StormOf(ws, wg) : ws \in {30, 45, 70, 120, 160, 180, 260}, wg \in {60, 81, 121, 330}}

OtherStorms == {StormOf(70, 81), StormOf(180, 121)}

StormLists ==
    {<<>>} \cup {<<s>> : s \in Storms}
    \cup {<<s, o>> : s \in Storms, o \in OtherStorms}
    \cup {<<o, s>> : s \in Storms, o \in OtherStorms}

AlertLists ==
    {<<>>} \cup {<<[severity |-> a]>> : a \in {"HIGH", "MODERATE"}}
    \cup {<<[severity |-> a], [severity |-> b]>> : a, b \in {"HIGH", "MODERATE"}}

CycloneInputs ==
    {[storms |-> [items |-> s], alerts |-> [items |-> a]] : s \in StormLists, a \in AlertLists}
    \cup {[storms |-> Null, alerts |-> a] : a \in {Null, [items |-> <<[severity |-> "HIGH"]>>]}}
    \cup {[storms |-> [items |-> <<StormOf(180, 121)>>], alerts |-> Null]}

HeatwaveInputs == {Null} \cup {[level |-> l] : l \in {"HIGH", "MODERATE", "LOW", "UNKNOWN"}}

\* a few observations per hazard, combined with one another
FloodReps ==
    {NoFloodArgs,
     [precipData |-> PrecipOf(160, 110, ScenarioASeries), currentWeather |-> WeatherOf(20, 50, 0, 12)],
     [precipData |-> PrecipOf(101, 31, Series(3)), currentWeather |-> Null],
     [precipData |-> PrecipOf(151, 61, Series(0)), currentWeather |-> WeatherOf(20, 50, 0, 0)]}

WildfireReps ==
    {NoWildfireArgs,
     [weather |-> WeatherOf(42, 15, 45, 0), precipData |-> PrecipOf(1, 0, <<>>)],
     [weather |-> WeatherOf(36, 35, 16, 0), precipData |-> Null],
     [weather |-> WeatherOf(41, 25, 26, 0), precipData |-> PrecipOf(5, 0, <<>>)]}

EarthquakeReps ==
    {Null,
     [items |-> <<QuakeOf(65, 50, NowStart - 1, TRUE)>>],
     [items |-> <<QuakeOf(50, 200, NowStart - 1, FALSE)>>],
     [items |-> <<QuakeOf(70, 50, NowStart - 1, TRUE)>> \o Aftershocks(4)]}

CycloneReps ==
    {NoCycloneArgs,
     [storms |-> [items |-> <<StormOf(70, 81)>>], alerts |-> [items |-> <<[severity |-> "MODERATE"]>>]],
     [storms |-> [items |-> <<StormOf(120, 121)>>], alerts |-> [items |-> <<>>]],
     [storms |-> [items |-> <<StormOf(180, 330)>>], alerts |-> [items |-> <<[severity |-> "HIGH"]>>]]}

-----------------------------------------------------------------------------
(* disasterService.js: the cache and the three fetchers.  Coordinates are in  *)
(* thousandths of a degree and cache keys in hundredths.  A payload is a      *)
(* record: the earthquake list is [items |-> list], the missing precipitation *)
(* result is Null.                                                            *)

MaxTime == 2
MaxInFlight == 2
MaxFetches == 2

\* 10 * 60 * 1000 ms, in units of ten minutes
CACHE_DURATION_MS == 1

Datasets == {"earthquakes", "severe-weather", "precip-history"}

\* Number.prototype.toFixed(2) of a value given in thousandths: the nearest hundredth
toFixed2(x) == IF x >= 0 THEN (x + 5) \div 10 ELSE 0 - ((5 - x) \div 10)

\* Null is an argument without lat and lon, such as the number useDisasterData.js
\* passes; the second has a falsy latitude; the last two differ and share their keys
Coordinates ==
    {Null, [lat |-> 0, lon |-> 77209], [lat |-> 28614, lon |-> 77209],
     [lat |-> 28613, lon |-> 77211]}

\* !coords?.lat || !coords?.lon
NoCoordinates(coords) == IsNull(coords) \/ coords.lat = 0 \/ coords.lon = 0

\* `${dataset}-${coords.lat.toFixed(2)}-${coords.lon.toFixed(2)}`
cacheKey(dataset, coords) ==
    [dataset |-> dataset, lat |-> toFixed2(coords.lat), lon |-> toFixed2(coords.lon)]

Keys == {cacheKey(d, c) : d \in Datasets, c \in {x \in Coordinates : ~NoCoordinates(x)}}

\* getCached that never finds an entry
getCachedNever(c, key, t) == Null

\* the value getCached returns: the data of an entry that is not older than the duration
getCached(c, key, t) ==
    IF IsNull(c[key]) THEN Null
    ELSE IF t - c[key].timestamp > CACHE_DURATION_MS THEN Null
    ELSE c[key].data

\* the Map after getCached: an entry found expired is deleted
getCachedDeletes(c, key, t) ==
    IF ~IsNull(c[key]) /\ t - c[key].timestamp > CACHE_DURATION_MS
    THEN [c EXCEPT ![key] = Null]
    ELSE c

setCache(c, key, data, t) == [c EXCEPT ![key] = [data |-> data, timestamp |-> t]]

\* what a fetcher returns without data: [], { alerts: [], storms: [] }, null
EmptyDefault(dataset) ==
    IF dataset = "earthquakes" THEN [items |-> <<>>]
    ELSE IF dataset = "severe-weather" THEN [alerts |-> <<>>, storms |-> <<>>]
    ELSE Null

\* array.filter(eq => eq.distance <= radiusKm)
RECURSIVE WithinRadius(_, _)
WithinRadius(earthquakes, radiusKm) ==
    IF earthquakes = <<>> THEN <<>>
    ELSE LET rest == WithinRadius(SubSeq(earthquakes, 1, Len(earthquakes) - 1), radiusKm)
             last == earthquakes[Len(earthquakes)]
         IN  IF last.distance <= radiusKm THEN Append(rest, last) ELSE rest

\* array.sort((a, b) => a.distance - b.distance), which is stable
RECURSIVE InsertByDistance(_, _)
InsertByDistance(sorted, eq) ==
    IF sorted = <<>> THEN <<eq>>
    ELSE IF sorted[Len(sorted)].distance <= eq.distance THEN Append(sorted, eq)
    ELSE Append(InsertByDistance(SubSeq(sorted, 1, Len(sorted) - 1), eq), sorted[Len(sorted)])

RECURSIVE SortByDistance(_)
SortByDistance(earthquakes) ==
    IF earthquakes = <<>> THEN <<>>
    ELSE InsertByDistance(SortByDistance(SubSeq(earthquakes, 1, Len(earthquakes) - 1)),
                          earthquakes[Len(earthquakes)])

\* array.slice(0, n)
Slice(list, n) == SubSeq(list, 1, Min(n, Len(list)))

\* the list fetchEarthquakes stores and returns; a feature carries its rounded distance
EarthquakeResult(features, radiusKm) ==
    [items |-> Slice(SortByDistance(WithinRadius(features, radiusKm)), 10)]

detectStormConditions(data) ==
    IF IsNull(data.current) THEN <<>>
    ELSE IF \/ data.current.weather_code >= 95
            \/ data.current.wind_gusts_10m > 90
            \/ data.current.wind_speed_10m > 60
         THEN <<StormOf(data.current.wind_speed_10m, data.current.wind_gusts_10m)>>
         ELSE <<>>

\* hourly is Null or the precipitation sum of its first 24 hours
generateWeatherAlerts(data) ==
    IF IsNull(data.current) \/ IsNull(data.hourly) THEN <<>>
    ELSE (IF data.current.wind_gusts_10m > 80
          THEN <<[type |-> "WIND",
                  severity |-> IF data.current.wind_gusts_10m > 100 THEN "HIGH"
                               ELSE "MODERATE"]>>
          ELSE <<>>)
      \o (IF data.hourly.next24hPrecip > 50
          THEN <<[type |-> "RAIN",
                  severity |-> IF data.hourly.next24hPrecip > 100 THEN "HIGH"
                               ELSE "MODERATE"]>>
          ELSE <<>>)
      \o (IF data.current.weather_code >= 95
          THEN <<[type |-> "STORM",
                  severity |-> IF data.current.weather_code >= 96 THEN "HIGH"
                               ELSE "MODERATE"]>>
          ELSE <<>>)

\* the object fetchSevereWeather stores and returns
SevereWeatherResult(data) ==
    [alerts |-> generateWeatherAlerts(data), storms |-> detectStormConditions(data),
     raw |-> data]

\* array.reduce((sum, p) => sum + (p || 0), 0)
RECURSIVE SumOf(_)
SumOf(list) == IF list = <<>> THEN 0 ELSE Head(list) + SumOf(Tail(list))

\* array.slice(-n)
LastOf(list, n) == SubSeq(list, Max(1, Len(list) - n + 1), Len(list))

\* the object fetchPrecipitationHistory stores and returns
PrecipitationResult(daily) ==
    [total7Day |-> SumOf(daily), total3Day |-> SumOf(LastOf(daily, 3)),
     precipitation |-> daily]

\* what the provider may answer
EarthquakeFeeds ==
    {<<QuakeOf(45, 320, 40, FALSE), QuakeOf(62, 800, 30, TRUE), QuakeOf(30, 120, 47, FALSE)>>,
     [i \in 1..12 |-> QuakeOf(30 + i, 10 * (13 - i), 40, FALSE)]}

WeatherOfProvider(speed, gusts, code, precip) ==
    [current |-> [wind_speed_10m |-> speed, wind_gusts_10m |-> gusts, weather_code |-> code],
     hourly |-> [next24hPrecip |-> precip]]

WeatherFeeds == {WeatherOfProvider(10, 20, 3, 0), WeatherOfProvider(70, 130, 96, 120)}

PrecipitationFeeds == {<<0, 0, 0, 0, 0, 0, 0>>, ScenarioASeries}

Responses(dataset) ==
    IF dataset = "earthquakes" THEN {[features |-> f] : f \in EarthquakeFeeds}
    ELSE IF dataset = "severe-weather" THEN WeatherFeeds
    ELSE {[daily |-> d] : d \in PrecipitationFeeds}

\* the payload a fetcher builds from the provider's answer
ResultOf(dataset, response, radiusKm) ==
    IF dataset = "earthquakes" THEN EarthquakeResult(response.features, radiusKm)
    ELSE IF dataset = "severe-weather" THEN SevereWeatherResult(response)
    ELSE PrecipitationResult(response.daily)

-----------------------------------------------------------------------------
(* agricultureService.js: getCachedOrFetch and the fetchers that contact the   *)
(* provider.  Precipitation is in tenths of a millimetre; NoValue is a null in *)
(* the provider's array.  Of the precipitation history the fields computed     *)
(* from precipitation_sum are modelled.                                        *)

MaxAgriTime == 2
MaxAgriCalls == 2
MaxAgriContacts == 2

\* 10 * 60 * 1000 ms, in units of five minutes
CACHE_DURATION == 2

NoValue == 0 - 1

\* b || 0
OrZero(b) == IF b = NoValue THEN 0 ELSE b

\* array.reduce((a, b) => a + (b || 0), 0)
RECURSIVE SumOrZero(_)
SumOrZero(list) == IF list = <<>> THEN 0 ELSE OrZero(Head(list)) + SumOrZero(Tail(list))

\* the loop of lines 58-64 from index i down: a day under 1 mm counts, the first
\* other day ends the loop
RECURSIVE DryDaysFrom(_, _)
DryDaysFrom(precipitation, i) ==
    IF i < 1 THEN 0
    ELSE IF OrZero(precipitation[i]) < 10 THEN 1 + DryDaysFrom(precipitation, i - 1)
    ELSE 0

consecutiveDryDays(precipitation) == DryDaysFrom(precipitation, Len(precipitation))

AgriFetchers == {"fetchPrecipitationHistory", "fetchCurrentConditions", "fetchTerrainData"}

\* `precip_${lat}_${lon}_${days}`, `agri_current_${lat}_${lon}`, `terrain_${lat}_${lon}`
agriCacheKey(fetcher, lat, lon, days) ==
    IF fetcher = "fetchPrecipitationHistory"
    THEN [prefix |-> "precip", lat |-> lat, lon |-> lon, days |-> days]
    ELSE IF fetcher = "fetchCurrentConditions"
    THEN [prefix |-> "agri_current", lat |-> lat, lon |-> lon, days |-> 0]
    ELSE [prefix |-> "terrain", lat |-> lat, lon |-> lon, days |-> 0]

AgriPlaces == {[lat |-> 28614, lon |-> 77209]}

AgriDays == {7, 30}

AgriKeys ==
    {agriCacheKey(f, p.lat, p.lon, d) : f \in AgriFetchers, p \in AgriPlaces, d \in AgriDays}

\* what the provider may answer: daily.precipitation_sum, oldest day first; the
\* current conditions; the elevation in metres
AgriResponses(fetcher) ==
    IF fetcher = "fetchPrecipitationHistory"
    THEN {[daily |-> d] : d \in {<<>>, <<0, 5, NoValue>>, <<30, 0, 9>>, <<0, 0, 10>>}}
    ELSE IF fetcher = "fetchCurrentConditions"
    THEN {[temperature |-> 31, humidity |-> 40, precipitation |-> 0]}
    ELSE {[elevation |-> 12], [elevation |-> 216]}

\* the object the fetchFn of a fetcher returns for the provider's answer
AgriResultOf(fetcher, response) ==
    IF fetcher = "fetchPrecipitationHistory"
    THEN [precipitation |-> response.daily,
          total7Day |-> SumOrZero(LastOf(response.daily, 7)),
          total30Day |-> SumOrZero(response.daily),
          consecutiveDryDays |-> consecutiveDryDays(response.daily)]
    ELSE IF fetcher = "fetchCurrentConditions"
    THEN [temperature |-> response.temperature, humidity |-> response.humidity,
          precipitation |-> response.precipitation]
    ELSE [elevation |-> response.elevation,
          drainageClass |-> IF response.elevation < 50 THEN "POOR"
                            ELSE IF response.elevation > 500 THEN "GOOD"
                            ELSE "MODERATE"]

\* what the catch block of a fetchFn returns
AgriFallback(fetcher) ==
    IF fetcher = "fetchPrecipitationHistory"
    THEN [precipitation |-> <<>>, total7Day |-> 0, total30Day |-> 0,
          consecutiveDryDays |-> 0]
    ELSE IF fetcher = "fetchCurrentConditions" THEN Null
    ELSE [elevation |-> 0, drainageClass |-> "MODERATE"]

\* cached && Date.now() - cached.timestamp < CACHE_DURATION
AgriFresh(c, key, t) == ~IsNull(c[key]) /\ t - c[key].timestamp < CACHE_DURATION

\* no call has been made
AgriIdle ==
    /\ agriClock = 0
    /\ agriCache = [k \in AgriKeys |-> Null]
    /\ agriCalls = [i \in 1..MaxAgriCalls |-> Null]
    /\ agriContacts = [k \in AgriKeys |-> 0]
    /\ agriOrigin = [k \in AgriKeys |-> "none"]
    /\ agriReturned = Null

-----------------------------------------------------------------------------
(* useClimateData: the state before a component uses the hook *)

ClimateStateOf(weather, airQuality, alerts, isLoading, message, updated) ==
    [weather |-> weather, airQuality |-> airQuality, alerts |-> alerts,
     loading |-> isLoading, error |-> message, lastUpdated |-> updated]

\* the useState defaults
ClimateDefaults == ClimateStateOf(Null, Null, [items |-> <<>>], FALSE, Null, Null)

ClimateIdle ==
    /\ climateMounted = FALSE /\ climateCoords = Null /\ isActive = FALSE
    /\ climateState = ClimateDefaults
    /\ controllerRef = 0 /\ intervalRef = 0
    /\ controllers = <<>> /\ intervals = {} /\ fetches = {}
    /\ resumed = Null

-----------------------------------------------------------------------------
\* history: the payload stored last under the key, and the payloads stored under it
\* no longer than the cache duration before time t
LatestStored(key) ==
    IF stored[key] = <<>> THEN Null ELSE stored[key][Len(stored[key])].data

StoredWithin(key, t) ==
    {stored[key][n].data : n \in {m \in DOMAIN stored[key] :
                                     t - stored[key][m].timestamp <= CACHE_DURATION_MS}}

ServiceInit ==
    /\ clock = 0
    /\ cache = [k \in Keys |-> Null]
    /\ inflight = [i \in 1..MaxInFlight |-> Null]
    /\ fetchCount = 0
    /\ stored = [k \in Keys |-> <<>>]
    /\ returned = Null

\* no component uses the hook
HookIdle ==
    /\ mounted = FALSE /\ location = Null /\ climateData = Null
    /\ timers = {} /\ effects = 0 /\ tornDown = {} /\ ticked = <<>> /\ cycles = <<>>
    /\ loading = TRUE /\ error = Null /\ lastUpdated = Null /\ settled = Null

-----------------------------------------------------------------------------
(* The scorers are called in the order of useDisasterData: the heatwave memo, *)
(* then flood, wildfire, earthquake and cyclone; the two memos follow every   *)
(* change of a risk.                                                           *)

RisksOf(fl, wf, eq, cy, hw) ==
    [floodRisk |-> fl, wildfireRisk |-> wf, earthquakeRisk |-> eq, cycloneRisk |-> cy,
     heatwaveRisk |-> hw]

Memos(fl, wf, eq, cy, hw) ==
    /\ disasterRiskIndex' = calculateDisasterRiskIndex(RisksOf(fl, wf, eq, cy, hw))
    /\ activeAlerts' = ActiveAlertsOf(eq, cy, fl, wf)

Init ==
    /\ \/ /\ floodArgs \in FloodInputs
          /\ wildfireArgs = NoWildfireArgs /\ earthquakeArgs = Null
          /\ cycloneArgs = NoCycloneArgs /\ heatwaveArg = Null
       \/ /\ wildfireArgs \in WildfireInputs
          /\ floodArgs = NoFloodArgs /\ earthquakeArgs = Null
          /\ cycloneArgs = NoCycloneArgs /\ heatwaveArg = Null
       \/ /\ earthquakeArgs \in EarthquakeInputs
          /\ floodArgs = NoFloodArgs /\ wildfireArgs = NoWildfireArgs
          /\ cycloneArgs = NoCycloneArgs /\ heatwaveArg = Null
       \/ /\ cycloneArgs \in CycloneInputs
          /\ floodArgs = NoFloodArgs /\ wildfireArgs = NoWildfireArgs
          /\ earthquakeArgs = Null /\ heatwaveArg = Null
       \/ /\ floodArgs \in FloodReps /\ wildfireArgs \in WildfireReps
          /\ earthquakeArgs \in EarthquakeReps /\ cycloneArgs \in CycloneReps
          /\ heatwaveArg \in HeatwaveInputs
    /\ now = NowStart
    /\ floodRisk = Null /\ wildfireRisk = Null /\ earthquakeRisk = Null
    /\ cycloneRisk = Null /\ heatwaveRisk = Null
    /\ disasterRiskIndex = calculateDisasterRiskIndex(RisksOf(Null, Null, Null, Null, Null))
    /\ activeAlerts = <<>>
    /\ pc = "heatwave"
    /\ ServiceInit
    /\ AgriIdle /\ ClimateIdle
    /\ HookIdle

CalcHeatwave ==
    /\ pc = "heatwave"
    /\ heatwaveRisk' = calculateHeatwaveRiskScore(heatwaveArg)
    /\ Memos(floodRisk, wildfireRisk, earthquakeRisk, cycloneRisk, heatwaveRisk')
    /\ pc' = "flood"
    /\ UNCHANGED <<floodArgs, wildfireArgs, earthquakeArgs, cycloneArgs, heatwaveArg, now,
                   floodRisk, wildfireRisk, earthquakeRisk, cycloneRisk, serviceVars,
                   agriVars, climateVars, hookVars>>

CalcFlood ==
    /\ pc = "flood"
    /\ floodRisk' = calculateFloodRisk(floodArgs.precipData, floodArgs.currentWeather)
    /\ Memos(floodRisk', wildfireRisk, earthquakeRisk, cycloneRisk, heatwaveRisk)
    /\ pc' = "wildfire"
    /\ UNCHANGED <<floodArgs, wildfireArgs, earthquakeArgs, cycloneArgs, heatwaveArg, now,
                   wildfireRisk, earthquakeRisk, cycloneRisk, heatwaveRisk, serviceVars,
                   agriVars, climateVars, hookVars>>

CalcWildfire ==
    /\ pc = "wildfire"
    /\ wildfireRisk' = calculateWildfireRisk(wildfireArgs.weather, wildfireArgs.precipData)
    /\ Memos(floodRisk, wildfireRisk', earthquakeRisk, cycloneRisk, heatwaveRisk)
    /\ pc' = "earthquake"
    /\ UNCHANGED <<floodArgs, wildfireArgs, earthquakeArgs, cycloneArgs, heatwaveArg, now,
                   floodRisk, earthquakeRisk, cycloneRisk, heatwaveRisk, serviceVars,
                   agriVars, climateVars, hookVars>>

CalcEarthquake ==
    /\ pc = "earthquake"
    /\ earthquakeRisk' = calculateEarthquakeRisk(earthquakeArgs, now)
    /\ Memos(floodRisk, wildfireRisk, earthquakeRisk', cycloneRisk, heatwaveRisk)
    /\ pc' = "cyclone"
    /\ UNCHANGED <<floodArgs, wildfireArgs, earthquakeArgs, cycloneArgs, heatwaveArg, now,
                   floodRisk, wildfireRisk, cycloneRisk, heatwaveRisk, serviceVars,
                   agriVars, climateVars, hookVars>>

CalcCyclone ==
    /\ pc = "cyclone"
    /\ cycloneRisk' = calculateCycloneRisk(cycloneArgs.storms, cycloneArgs.alerts)
    /\ Memos(floodRisk, wildfireRisk, earthquakeRisk, cycloneRisk', heatwaveRisk)
    /\ pc' = "done"
    /\ UNCHANGED <<floodArgs, wildfireArgs, earthquakeArgs, cycloneArgs, heatwaveArg, now,
                   floodRisk, wildfireRisk, earthquakeRisk, heatwaveRisk, serviceVars,
                   agriVars, climateVars, hookVars>>

\* the hours between two scorings of the same observation
Lapse == DAY_MS \div 2

\* a later refresh cycle finds the same observation: fetchAllData calls the four
\* scorers again, and Date.now() has moved on
NextRefresh ==
    /\ pc = "done"
    /\ now < NowStart + DAY_MS
    /\ now' = now + Lapse
    /\ pc' = "flood"
    /\ UNCHANGED <<floodArgs, wildfireArgs, earthquakeArgs, cycloneArgs, heatwaveArg,
                   floodRisk, wildfireRisk, earthquakeRisk, cycloneRisk, heatwaveRisk,
                   disasterRiskIndex, activeAlerts, serviceVars,
                   agriVars, climateVars, hookVars>>

Next ==
    \/ CalcHeatwave \/ CalcFlood \/ CalcWildfire \/ CalcEarthquake \/ CalcCyclone
    \/ NextRefresh

Spec == Init /\ [][Next]_vars

-----------------------------------------------------------------------------
(* The fetchers of disasterService.js called at any time, by any caller, while *)
(* the provider answers or fails and the clock advances.  The scorers are not  *)
(* called.                                                                     *)

\* the cache holds an entry for the key that is not older than the cache duration
HeldFresh(key) ==
    ~IsNull(cache[key]) /\ clock - cache[key].timestamp <= CACHE_DURATION_MS

\* the first slot without a waiting call
FirstIdle(i) == IsNull(inflight[i]) /\ \A j \in 1..(i - 1) : ~IsNull(inflight[j])

\* a fetcher up to its await: the coordinate check, the cache lookup, the request
Fetch(dataset, coords, radiusKm) ==
    IF NoCoordinates(coords)
    THEN /\ returned' = [dataset |-> dataset, key |-> Null, how |-> "no coordinates",
                         data |-> EmptyDefault(dataset), seen |-> {}, held |-> FALSE,
                         latest |-> Null, radiusKm |-> radiusKm]
         /\ UNCHANGED <<clock, cache, inflight, fetchCount, stored>>
    ELSE LET key == cacheKey(dataset, coords)
             cached == getCached(cache, key, clock)
         IN  IF ~IsNull(cached)
             THEN /\ returned' = [dataset |-> dataset, key |-> key, how |-> "cached",
                                  data |-> cached, seen |-> StoredWithin(key, clock),
                                  held |-> HeldFresh(key), latest |-> LatestStored(key),
                                  radiusKm |-> radiusKm]
                  /\ UNCHANGED <<clock, cache, inflight, fetchCount, stored>>
             ELSE /\ fetchCount < MaxFetches
                  /\ \E i \in 1..MaxInFlight :
                        /\ FirstIdle(i)
                        /\ inflight' = [inflight EXCEPT ![i] =
                               [dataset |-> dataset, key |-> key, radiusKm |-> radiusKm,
                                seen |-> StoredWithin(key, clock), held |-> HeldFresh(key)]]
                  /\ cache' = getCachedDeletes(cache, key, clock)
                  /\ fetchCount' = fetchCount + 1
                  /\ UNCHANGED <<clock, stored, returned>>

fetchEarthquakes ==
    /\ \E coords \in Coordinates, radiusKm \in {500, 1000} :
          Fetch("earthquakes", coords, radiusKm)
    /\ UNCHANGED <<engineVars, hookVars, agriVars, climateVars>>

fetchSevereWeather ==
    /\ \E coords \in Coordinates : Fetch("severe-weather", coords, 0)
    /\ UNCHANGED <<engineVars, hookVars, agriVars, climateVars>>

fetchPrecipitationHistory ==
    /\ \E coords \in Coordinates : Fetch("precip-history", coords, 0)
    /\ UNCHANGED <<engineVars, hookVars, agriVars, climateVars>>

\* the provider answers: the fetcher builds its payload, stores it and returns it
FetchResolves ==
    /\ \E i \in 1..MaxInFlight :
          /\ ~IsNull(inflight[i])
          /\ \E response \in Responses(inflight[i].dataset) :
                LET call == inflight[i]
                    data == ResultOf(call.dataset, response, call.radiusKm)
                IN  /\ cache' = setCache(cache, call.key, data, clock)
                    /\ stored' = [stored EXCEPT ![call.key] =
                                     Append(@, [data |-> data, timestamp |-> clock])]
                    /\ returned' = [dataset |-> call.dataset, key |-> call.key,
                                    how |-> "fetched", data |-> data, seen |-> call.seen,
                                    held |-> call.held, latest |-> LatestStored(call.key),
                                    radiusKm |-> call.radiusKm]
          /\ inflight' = [inflight EXCEPT ![i] = Null]
    /\ UNCHANGED <<clock, fetchCount>>
    /\ UNCHANGED <<engineVars, hookVars, agriVars, climateVars>>

\* the request fails or the answer is not ok: the catch block returns the default
FetchRejects ==
    /\ \E i \in 1..MaxInFlight :
          /\ ~IsNull(inflight[i])
          /\ returned' = [dataset |-> inflight[i].dataset, key |-> inflight[i].key,
                          how |-> "failed", data |-> EmptyDefault(inflight[i].dataset),
                          seen |-> inflight[i].seen, held |-> inflight[i].held,
                          latest |-> LatestStored(inflight[i].key),
                          radiusKm |-> inflight[i].radiusKm]
          /\ inflight' = [inflight EXCEPT ![i] = Null]
    /\ UNCHANGED <<clock, cache, fetchCount, stored>>
    /\ UNCHANGED <<engineVars, hookVars, agriVars, climateVars>>

clearDisasterCache ==
    /\ cache' = [k \in Keys |-> Null]
    /\ UNCHANGED <<clock, inflight, fetchCount, stored, returned>>
    /\ UNCHANGED <<engineVars, hookVars, agriVars, climateVars>>

Tick ==
    /\ clock < MaxTime
    /\ clock' = clock + 1
    /\ UNCHANGED <<cache, inflight, fetchCount, stored, returned>>
    /\ UNCHANGED <<engineVars, hookVars, agriVars, climateVars>>

InitCache ==
    /\ floodArgs = NoFloodArgs /\ wildfireArgs = NoWildfireArgs /\ earthquakeArgs = Null
    /\ cycloneArgs = NoCycloneArgs /\ heatwaveArg = Null
    /\ now = NowStart
    /\ floodRisk = Null /\ wildfireRisk = Null /\ earthquakeRisk = Null
    /\ cycloneRisk = Null /\ heatwaveRisk = Null
    /\ disasterRiskIndex = calculateDisasterRiskIndex(RisksOf(Null, Null, Null, Null, Null))
    /\ activeAlerts = <<>>
    /\ pc = "heatwave"
    /\ ServiceInit
    /\ AgriIdle /\ ClimateIdle
    /\ HookIdle

NextCache ==
    \/ fetchEarthquakes \/ fetchSevereWeather \/ fetchPrecipitationHistory
    \/ FetchResolves \/ FetchRejects \/ clearDisasterCache \/ Tick

SpecCache == InitCache /\ [][NextCache]_vars

\* the service with time that keeps passing; whether and when the provider
\* answers a request is not in the program's hands, and the callers are free to
\* call or not, so no other step is fair
SpecCacheFair == SpecCache /\ WF_vars(Tick)

-----------------------------------------------------------------------------
(* Claims about the scorers, the composite index and the alert list *)

ComputedRisks ==
    {r \in {floodRisk, wildfireRisk, earthquakeRisk, cycloneRisk, heatwaveRisk} : ~IsNull(r)}

\* C1: every score a scorer returns, and the score of the composite index over any
\* combination of the scorers' results, is an integer from 0 to 100.
C1_ScoresInRange ==
    /\ \A r \in ComputedRisks : r.score \in 0..100
    /\ disasterRiskIndex.score \in 0..100

\* the flood factors add up to more than 100 and the score is cut to 100
C1_Witness ==
    /\ pc = "done"
    /\ ~IsNull(floodArgs.precipData)
    /\ FloodSum(floodArgs.precipData, floodArgs.currentWeather) > 100
    /\ floodRisk.score = 100
    /\ disasterRiskIndex.score > 0

\* the step function as the claim states it
StatedLevel(score) ==
    CASE score >= 85 -> "EXTREME"
      [] score >= 60 /\ score < 85 -> "HIGH"
      [] score >= 35 /\ score < 60 -> "MODERATE"
      [] score < 35 -> "LOW"

\* C2: the level of every result is the step function of its score: EXTREME from 85,
\* HIGH from 60 to 84, MODERATE from 35 to 59, LOW below 35; 34 is LOW, 35 and 59
\* are MODERATE, 60 and 84 are HIGH, 85 is EXTREME.
C2_LevelSteps ==
    /\ \A r \in ComputedRisks \cup {disasterRiskIndex} : r.level = StatedLevel(r.score)
    /\ \A r \in ComputedRisks \cup {disasterRiskIndex} :
          /\ (r.score = 34 => r.level = "LOW")
          /\ (r.score \in {35, 59} => r.level = "MODERATE")
          /\ (r.score \in {60, 84} => r.level = "HIGH")
          /\ (r.score = 85 => r.level = "EXTREME")

\* the composite index is at 59, still MODERATE, over a hazard that is EXTREME
C2_Witness ==
    /\ disasterRiskIndex.score = 59
    /\ disasterRiskIndex.level = "MODERATE"
    /\ \E r \in ComputedRisks : r.score >= 85 /\ r.level = "EXTREME"

\* the five scores the index is computed from: a risk not yet computed counts 0
CurrentScores ==
    [k \in {"flood", "wildfire", "earthquake", "cyclone", "heatwave"} |->
        LET r == CASE k = "flood" -> floodRisk
                   [] k = "wildfire" -> wildfireRisk
                   [] k = "earthquake" -> earthquakeRisk
                   [] k = "cyclone" -> cycloneRisk
                   [] k = "heatwave" -> heatwaveRisk
        IN  IF IsNull(r) THEN 0 ELSE r.score]

\* 100 * (0.25 flood + 0.20 wildfire + 0.20 earthquake + 0.25 cyclone + 0.10 heatwave)
StatedWeighted(s) ==
    25 * s["flood"] + 20 * s["wildfire"] + 20 * s["earthquake"] + 25 * s["cyclone"]
    + 10 * s["heatwave"]

StatedHighCount(s) == Cardinality({k \in DOMAIN s : s[k] >= 60})

\* min(100, round(weightedScore * amplification)), halves rounded up
StatedIndex(s) ==
    LET n == StatedHighCount(s)
    IN  IF n >= 2
        THEN Min(100, (StatedWeighted(s) * (10 + n) + 500) \div 1000)
        ELSE Min(100, (StatedWeighted(s) + 50) \div 100)

C4_Monotonic ==
    LET s == disasterRiskIndex.breakdown
    IN  pc = "done" =>
          \A i \in DOMAIN HazardKeys :
            \A v \in (s[HazardKeys[i]] + 1)..100 :
               finalScoreOf([s EXCEPT ![HazardKeys[i]] = v]) >= disasterRiskIndex.score

\* one hazard is at 60 or more, and raising a second one to 60 sets the amplification on
C4_Witness ==
    LET s == disasterRiskIndex.breakdown
    IN  /\ pc = "done"
        /\ disasterRiskIndex.highRiskCount = 1
        /\ disasterRiskIndex.score > 0
        /\ \E i \in DOMAIN HazardKeys :
              /\ s[HazardKeys[i]] < 60
              /\ finalScoreOf([s EXCEPT ![HazardKeys[i]] = 60]) > disasterRiskIndex.score

\* the first hazard, in the order flood, wildfire, earthquake, cyclone, heatwave, whose
\* score is the greatest
FirstGreatest(s) ==
    LET top == CHOOSE m \in {s[k] : k \in DOMAIN s} : \A k \in DOMAIN s : s[k] <= m
        first == CHOOSE i \in DOMAIN HazardKeys :
                    /\ s[HazardKeys[i]] = top
                    /\ \A j \in 1..(i - 1) : s[HazardKeys[j]] # top
    IN  HazardKeys[first]

StatedConcern(k) ==
    CASE k = "flood" -> "Flooding"
      [] k = "wildfire" -> "Wildfire"
      [] k = "earthquake" -> "Earthquake"
      [] k = "cyclone" -> "Storm/Cyclone"
      [] k = "heatwave" -> "Extreme Heat"

\* C5: primaryConcern names the hazard with the greatest score, the first one in the
\* order flood, wildfire, earthquake, cyclone, heatwave when several share it, and is
\* "None" exactly when every score is 0.
C5_PrimaryConcern ==
    LET s == CurrentScores
        allZero == \A k \in DOMAIN s : s[k] = 0
    IN  /\ (disasterRiskIndex.primaryConcern = "None") <=> allZero
        /\ ~allZero => disasterRiskIndex.primaryConcern = StatedConcern(FirstGreatest(s))

\* flood and wildfire share the greatest score and flood is named
C5_Witness ==
    /\ pc = "done"
    /\ CurrentScores["flood"] = 100 /\ CurrentScores["wildfire"] = 100
    /\ disasterRiskIndex.primaryConcern = "Flooding"

\* the alerts of one type in the list
AlertsOfType(type) == {i \in DOMAIN activeAlerts : activeAlerts[i].type = type}

\* exactly one alert of the type, with the hazard's level and reasoning, when the hazard
\* scores 35 or more, and none when it scores less or has no result yet
StatedAlert(type, risk) ==
    IF ~IsNull(risk) /\ risk.score >= 35
    THEN /\ Cardinality(AlertsOfType(type)) = 1
         /\ \A i \in AlertsOfType(type) :
               /\ activeAlerts[i].severity = risk.level
               /\ "reasoning" \in DOMAIN risk
               /\ activeAlerts[i].message = risk.reasoning
    ELSE AlertsOfType(type) = {}

\* C6: activeAlerts holds exactly one alert for each of the five hazards (flood,
\* wildfire, earthquake, storm, heatwave) whose score is 35 or more, with the hazard's
\* level as severity and its reasoning as message, and none for a hazard below 35.
C6_OneAlertPerHazard ==
    /\ StatedAlert("FLOOD", floodRisk)
    /\ StatedAlert("WILDFIRE", wildfireRisk)
    /\ StatedAlert("EARTHQUAKE", earthquakeRisk)
    /\ StatedAlert("STORM", cycloneRisk)
    /\ StatedAlert("HEATWAVE", heatwaveRisk)
    /\ Len(activeAlerts) = Cardinality({k \in DOMAIN CurrentScores : CurrentScores[k] >= 35})

\* the rank of a severity as the claim states it
StatedRank(severity) ==
    CASE severity = "EXTREME" -> 0
      [] severity = "SEVERE" -> 1
      [] severity = "HIGH" -> 2
      [] severity = "MODERATE" -> 3
      [] severity = "LOW" -> 4

\* C7: activeAlerts is ordered by the ranks EXTREME 0, SEVERE 1, HIGH 2, MODERATE 3,
\* LOW 4: an alert never stands before one of a smaller rank, so an EXTREME alert
\* stands before every HIGH and every MODERATE alert.
C7_SortedBySeverity ==
    \A i, j \in DOMAIN activeAlerts :
       i < j => StatedRank(activeAlerts[i].severity) <= StatedRank(activeAlerts[j].severity)

\* C8: on absent input (no precipitation data, no weather, no or an empty event list,
\* no storms and no alerts, no heatwave input, no risks at all) a scorer returns
\* score 0 and level LOW, and every per-hazard result carries a reasoning.
C8_AbsentInputDefaults ==
    /\ \A r \in ComputedRisks : "reasoning" \in DOMAIN r
    /\ (~IsNull(floodRisk) /\ IsNull(floodArgs.precipData)
          => floodRisk.score = 0 /\ floodRisk.level = "LOW")
    /\ (~IsNull(wildfireRisk) /\ IsNull(wildfireArgs.weather)
          => wildfireRisk.score = 0 /\ wildfireRisk.level = "LOW")
    /\ (~IsNull(earthquakeRisk) /\ (IsNull(earthquakeArgs) \/ earthquakeArgs = [items |-> <<>>])
          => earthquakeRisk.score = 0 /\ earthquakeRisk.level = "LOW")
    /\ (~IsNull(cycloneRisk) /\ ItemsOf(cycloneArgs.storms) = <<>>
                             /\ ItemsOf(cycloneArgs.alerts) = <<>>
          => cycloneRisk.score = 0 /\ cycloneRisk.level = "LOW")
    /\ (~IsNull(heatwaveRisk) /\ IsNull(heatwaveArg)
          => heatwaveRisk.score = 0 /\ heatwaveRisk.level = "LOW")
    /\ (ComputedRisks = {}
          => disasterRiskIndex.score = 0 /\ disasterRiskIndex.level = "LOW")

-----------------------------------------------------------------------------
(* Claims about the cache of disasterService.js *)

\* C9 as stated: once a payload has been stored under a key, every later call for the
\* key made no more than ten minutes after that store returns that payload from the
\* cache, without a request to the provider.
C9_CachedWithinTTL ==
    (~IsNull(returned) /\ ~IsNull(returned.key))
        => \A payload \in returned.seen :
              returned.how = "cached" /\ returned.data = payload

\* C9, amended: a call made while the cache holds an entry for its key that is no
\* older than ten minutes returns the payload stored last under the key and makes no
\* request to the provider.
C9_FreshEntryServed ==
    (~IsNull(returned) /\ returned.held)
        => returned.how = "cached" /\ returned.data = returned.latest

\* two overlapping calls have stored different payloads under one key, and a later
\* call inside the ten minutes of both is served the second payload from the cache
C9_Witness ==
    /\ ~IsNull(returned) /\ returned.held
    /\ returned.how = "cached"
    /\ returned.data = returned.latest
    /\ \E payload \in returned.seen : payload # returned.data
    /\ fetchCount = 2

\* C10: a fetcher whose request failed returns the payload stored last under the key,
\* whatever its age, when one was ever stored, and the empty default of its dataset
\* only when none was.
C10_StaleFallback ==
    (~IsNull(returned) /\ returned.how = "failed")
        => IF IsNull(returned.latest)
           THEN returned.data = EmptyDefault(returned.dataset)
           ELSE returned.data = returned.latest

-----------------------------------------------------------------------------
\* C16: every list fetchEarthquakes returns, fresh or from the cache, holds
\* only events no farther than the radiusKm of the call, in non-decreasing
\* order of distance, and at most ten of them.
C16_WithinRadiusSortedTen ==
    (~IsNull(returned) /\ returned.dataset = "earthquakes") =>
        LET list == returned.data.items
        IN  /\ \A i \in DOMAIN list : list[i].distance <= returned.radiusKm
            /\ \A i, j \in DOMAIN list : i < j => list[i].distance <= list[j].distance
            /\ Len(list) <= 10

-----------------------------------------------------------------------------
\* the flood score as the specification words it, from the four observed numbers
StatedFlood(total7Day, total3Day, intensity, series) ==
    LET A == IF total7Day > 150 THEN 40 ELSE IF total7Day > 100 THEN 25
             ELSE IF total7Day > 50 THEN 10 ELSE 0
        B == IF total3Day > 100 THEN 35 ELSE IF total3Day > 60 THEN 20
             ELSE IF total3Day > 30 THEN 8 ELSE 0
        C == IF intensity > 10 THEN 25 ELSE IF intensity > 5 THEN 15 ELSE 0
        days == Cardinality({i \in DOMAIN series : series[i] > 1})
        D == IF days >= 5 THEN 15 ELSE IF days >= 3 THEN 8 ELSE 0
    IN  Min(100, A + B + C + D)

ScenarioA ==
    [precipData |-> PrecipOf(160, 110, ScenarioASeries),
     currentWeather |-> WeatherOf(20, 50, 0, 12)]

\* C19: for a precipitation observation, calculateFloodRisk returns
\* min(100, A + B + C + D) with A 40/25/10 for total7Day > 150/100/50,
\* B 35/20/8 for total3Day > 100/60/30, C 25/15 for the current intensity
\* > 10/5 (0 without current weather) and D 15/8 for >= 5 / >= 3 days above
\* 1 mm; scenario A (160, 110, 12, [5,3,8,20,15,30,12]) gives 100, EXTREME.
C19_FloodFormula ==
    (~IsNull(floodRisk) /\ ~IsNull(floodArgs.precipData)) =>
        /\ floodRisk.score =
              StatedFlood(floodArgs.precipData.total7Day, floodArgs.precipData.total3Day,
                          IF IsNull(floodArgs.currentWeather) THEN 0
                          ELSE floodArgs.currentWeather.precipitation,
                          floodArgs.precipData.precipitation)
        /\ floodArgs = ScenarioA => (floodRisk.score = 100 /\ floodRisk.level = "EXTREME")

\* scenario A has been scored
C19_Witness ==
    /\ pc = "done"
    /\ floodArgs = ScenarioA
    /\ floodRisk.score = 100

-----------------------------------------------------------------------------
\* the wildfire score as the specification words it; total7Day is Null when
\* there is no precipitation observation
StatedWildfire(temp, humidity, wind, total7Day) ==
    LET T == IF temp > 40 THEN 30 ELSE IF temp > 35 THEN 20 ELSE IF temp > 30 THEN 10 ELSE 0
        H == IF humidity < 20 THEN 30 ELSE IF humidity < 30 THEN 20
             ELSE IF humidity < 40 THEN 10 ELSE 0
        W == IF wind > 40 THEN 25 ELSE IF wind > 25 THEN 15 ELSE IF wind > 15 THEN 5 ELSE 0
        R == IF IsNull(total7Day) THEN 0
             ELSE IF total7Day.value < 2 THEN 20 ELSE IF total7Day.value < 10 THEN 10 ELSE 0
    IN  Min(100, T + H + W + R)

ScenarioB == [weather |-> WeatherOf(42, 15, 45, 0), precipData |-> PrecipOf(1, 0, <<>>)]

\* C20: for a weather observation with temperature, humidity and wind speed,
\* calculateWildfireRisk returns min(100, T + H + W + R) with T 30/20/10 for
\* temperature > 40/35/30, H 30/20/10 for humidity < 20/30/40, W 25/15/5 for
\* wind > 40/25/15 and R 20/10 for a 7-day total < 2/10, also when the
\* humidity or the temperature is 0; scenario B (42, 15, 45, 1) gives 100,
\* EXTREME.
C20_WildfireFormula ==
    (/\ ~IsNull(wildfireRisk)
     /\ ~IsNull(wildfireArgs.weather)
     /\ wildfireArgs.weather =
            WeatherOf(wildfireArgs.weather.temperature, wildfireArgs.weather.humidity,
                      wildfireArgs.weather.windSpeed, wildfireArgs.weather.precipitation)) =>
        /\ wildfireRisk.score =
              StatedWildfire(wildfireArgs.weather.temperature, wildfireArgs.weather.humidity,
                             wildfireArgs.weather.windSpeed,
                             IF IsNull(wildfireArgs.precipData) THEN Null
                             ELSE [value |-> wildfireArgs.precipData.total7Day])
        /\ wildfireArgs = ScenarioB =>
              (wildfireRisk.score = 100 /\ wildfireRisk.level = "EXTREME")

-----------------------------------------------------------------------------
\* the amounts by which one input is moved in the comparisons below
Steps == {1, 5, 10, 50, 100}

\* the flood score does not fall when total7Day, total3Day or the current
\* intensity grows or one more day above 1 mm is added to the series
FloodMonotone ==
    LET p == floodArgs.precipData
        w == floodArgs.currentWeather
    IN  ~IsNull(p) =>
          /\ \A d \in Steps :
                /\ calculateFloodRisk([p EXCEPT !.total7Day = @ + d], w).score
                      >= floodRisk.score
                /\ calculateFloodRisk([p EXCEPT !.total3Day = @ + d], w).score
                      >= floodRisk.score
                /\ ~IsNull(w) =>
                      calculateFloodRisk(p, [w EXCEPT !.precipitation = @ + d]).score
                        >= floodRisk.score
          /\ calculateFloodRisk([p EXCEPT !.precipitation = Append(@, 5)], w).score
                >= floodRisk.score

\* the wildfire score does not fall when the temperature or the wind speed
\* grows, or the humidity or the 7-day total falls, down to 0
WildfireMonotone ==
    LET w == wildfireArgs.weather
        p == wildfireArgs.precipData
    IN  (~IsNull(w) /\ w = WeatherOf(w.temperature, w.humidity, w.windSpeed, w.precipitation)) =>
          /\ \A d \in Steps :
                /\ calculateWildfireRisk([w EXCEPT !.temperature = @ + d], p).score
                      >= wildfireRisk.score
                /\ calculateWildfireRisk([w EXCEPT !.windSpeed = @ + d], p).score
                      >= wildfireRisk.score
          /\ \A h \in 0..w.humidity :
                calculateWildfireRisk([w EXCEPT !.humidity = h], p).score
                  >= wildfireRisk.score
          /\ ~IsNull(p) =>
                \A t \in 0..p.total7Day :
                    calculateWildfireRisk(w, [p EXCEPT !.total7Day = t]).score
                      >= wildfireRisk.score

\* the earthquake score does not fall when one event of the list gets a
\* larger magnitude or a smaller distance, or one more event of the last 24
\* hours within 500 km joins the list
EarthquakeMonotone ==
    ~IsNull(earthquakeArgs) =>
        LET list == earthquakeArgs.items
        IN  /\ \A i \in DOMAIN list :
                  /\ \A d \in Steps :
                        calculateEarthquakeRisk(
                            [items |-> [list EXCEPT ![i].magnitude = @ + d]], now).score
                          >= earthquakeRisk.score
                  /\ \A d \in Steps :
                        d <= list[i].distance =>
                          calculateEarthquakeRisk(
                              [items |-> [list EXCEPT ![i].distance = @ - d]], now).score
                            >= earthquakeRisk.score
            /\ calculateEarthquakeRisk([items |-> Append(list, Aftershock)], now).score
                  >= earthquakeRisk.score

\* the cyclone score does not fall when one storm gets a higher category,
\* wind speed or gusts, one more alert is raised or an alert becomes HIGH
CycloneMonotone ==
    LET storms == ItemsOf(cycloneArgs.storms)
        alerts == ItemsOf(cycloneArgs.alerts)
        Score(st, al) == calculateCycloneRisk([items |-> st], [items |-> al]).score
    IN  /\ \A i \in DOMAIN storms :
              /\ storms[i].category < 5 =>
                    Score([storms EXCEPT ![i].category = @ + 1], alerts) >= cycloneRisk.score
              /\ \A d \in Steps :
                    /\ Score([storms EXCEPT ![i].windSpeed = @ + d], alerts)
                          >= cycloneRisk.score
                    /\ Score([storms EXCEPT ![i].windGusts = @ + d], alerts)
                          >= cycloneRisk.score
        /\ \A a \in {"HIGH", "MODERATE"} :
              Score(storms, Append(alerts, [severity |-> a])) >= cycloneRisk.score
        /\ \A i \in DOMAIN alerts :
              Score(storms, [alerts EXCEPT ![i].severity = "HIGH"]) >= cycloneRisk.score

\* C17: once the four hazards are scored, moving one risk-increasing input of
\* one scorer in its risk-increasing direction, all else fixed, gives a score
\* that is not below the one obtained: flood (total7Day, total3Day, intensity,
\* rain days), wildfire (temperature, humidity down to 0, wind, 7-day total),
\* earthquake (magnitude or distance of one event, recent events) and cyclone
\* (category, wind speed or gusts of one storm, alerts).
C17_HazardMonotone ==
    pc = "done" =>
        /\ FloodMonotone
        /\ WildfireMonotone
        /\ EarthquakeMonotone
        /\ CycloneMonotone

-----------------------------------------------------------------------------
\* a step that calls a scorer again leaves score and level as they were
SameResult(before, after) ==
    (~IsNull(before) /\ ~IsNull(after)) =>
        (after.score = before.score /\ after.level = before.level)

\* C18: scoring is pure.  The observation of a run never changes, so whenever a
\* scorer is called again, whatever happened in between (other scorers, time
\* passing), it returns the score and level it returned before; and the index
\* is the same whenever the five risks are the same.
C18_Pure ==
    [][/\ SameResult(floodRisk, floodRisk')
       /\ SameResult(wildfireRisk, wildfireRisk')
       /\ SameResult(earthquakeRisk, earthquakeRisk')
       /\ SameResult(cycloneRisk, cycloneRisk')
       /\ SameResult(heatwaveRisk, heatwaveRisk')
       /\ (RisksOf(floodRisk, wildfireRisk, earthquakeRisk, cycloneRisk, heatwaveRisk)
             = RisksOf(floodRisk', wildfireRisk', earthquakeRisk', cycloneRisk', heatwaveRisk'))
            => (disasterRiskIndex'.score = disasterRiskIndex.score
                /\ disasterRiskIndex'.level = disasterRiskIndex.level)]_vars

-----------------------------------------------------------------------------
\* C12: no ingestion call blocks for ever: a fetcher call that waits for the
\* provider eventually ends, with the provider's answer or, when none comes,
\* as a failure after a timeout.
C12_CallsEnd ==
    \A i \in 1..MaxInFlight : (~IsNull(inflight[i])) ~> IsNull(inflight[i])

-----------------------------------------------------------------------------
(* useDisasterData: the effect of lines 91-97, fetchAllData and refresh.  The  *)
(* three fetchers are async functions: fetchAllData is suspended at           *)
(* await Promise.all and resumes in a later microtask, after the code that    *)
(* runs in the same task.  An interval callback is a task of its own and runs *)
(* only when no call is suspended; so do a render and an unmount.             *)

MaxEffects == 3
MaxTicks == 2
MaxCycles == 2
MaxStarted == 4

Locations == {Null, [latitude |-> 0, longitude |-> 77209],
              [latitude |-> 28614, longitude |-> 77209]}

ClimateInputs ==
    {Null, [current |-> WeatherOf(42, 15, 45, 0), heatwaveRisk |-> [level |-> "HIGH"]]}

\* coords as the fetchers read them: an object with lat and lon
HookCoordsOfLocation(loc) == [lat |-> loc.latitude, lon |-> loc.longitude]

\* the coords a fetcher receives from the hook: fetchEarthquakes(location.latitude,
\* location.longitude, 500) passes the latitude, a number, which has no lat and no lon
HookCoords(loc) == Null

\* what a fetcher call can resolve to: the default without coordinates, else the
\* payload built from the provider's answer or the default of the catch block
FetcherOutcomes(dataset, coords, radiusKm) ==
    IF NoCoordinates(coords)
    THEN {[how |-> "no coordinates", data |-> EmptyDefault(dataset)]}
    ELSE {[how |-> "failed", data |-> EmptyDefault(dataset)]}
         \cup {[how |-> "fetched", data |-> ResultOf(dataset, r, radiusKm)] :
                  r \in Responses(dataset)}

\* !location?.latitude || !location?.longitude
NoLocation(loc) == IsNull(loc) \/ loc.latitude = 0 \/ loc.longitude = 0

\* climateData?.current || severeData?.currentWeather: no fetcher result has a
\* currentWeather field
CurrentWeatherOf(clim) == IF IsNull(clim) THEN Null ELSE clim.current

HeatwaveOf(clim) == IF IsNull(clim) THEN Null ELSE clim.heatwaveRisk

\* history: the fetchAllData calls that have resumed, and those that have reached
\* await Promise.all
Finished == IF IsNull(settled) THEN 0 ELSE settled.finished

Started == Finished + Len(cycles)

\* fetchAllData up to await Promise.all, as created for the arguments loc and clim;
\* a state setter of an unmounted component does nothing; a call is numbered in the
\* order of the calls and notes whether an earlier call is still suspended
fetchAllData(loc, clim) ==
    IF NoLocation(loc)
    THEN /\ error' = IF mounted THEN [message |-> "Location required for disaster monitoring"]
                     ELSE error
         /\ loading' = IF mounted THEN FALSE ELSE loading
         /\ UNCHANGED cycles
    ELSE /\ loading' = IF mounted THEN TRUE ELSE loading
         /\ error' = IF mounted THEN Null ELSE error
         /\ \E eq \in FetcherOutcomes("earthquakes", HookCoords(loc), loc.longitude),
               sv \in FetcherOutcomes("severe-weather", HookCoords(loc), 0),
               pr \in FetcherOutcomes("precip-history", HookCoords(loc), 0) :
               cycles' = Append(cycles, [location |-> loc, climateData |-> clim,
                                         earthquakes |-> eq, severe |-> sv, precip |-> pr,
                                         started |-> Started + 1,
                                         overlaps |-> cycles # <<>>])

\* clearInterval that clears nothing
clearIntervalNoop(ts, id) == ts

clearInterval(ts, id) == {t \in ts : t.id # id}

\* the effect: fetchAllData(); setInterval(fetchAllData, 10 min); the callback keeps
\* the fetchAllData of its render
RunEffect(loc, clim) ==
    /\ effects' = effects + 1
    /\ timers' = clearInterval(timers, effects)
                    \cup {[id |-> effects + 1, location |-> loc, climateData |-> clim]}
    /\ tornDown' = IF effects > 0 THEN tornDown \cup {effects} ELSE tornDown
    /\ fetchAllData(loc, clim)

\* after the first render the effect runs
MountEffect ==
    /\ mounted /\ effects = 0
    /\ RunEffect(location, climateData)
    /\ UNCHANGED <<engineVars, serviceVars, agriVars, climateVars, mounted, location,
                   climateData, ticked, lastUpdated, settled>>

\* the parent renders again with a new location object: fetchAllData is created anew,
\* the cleanup of the previous effect runs and then the effect
Rerender ==
    /\ mounted /\ cycles = <<>> /\ effects > 0 /\ effects < MaxEffects
    /\ \E loc \in Locations, clim \in ClimateInputs :
          /\ location' = loc
          /\ climateData' = clim
          /\ heatwaveArg' = HeatwaveOf(clim)
          /\ heatwaveRisk' = calculateHeatwaveRiskScore(HeatwaveOf(clim))
          /\ Memos(floodRisk, wildfireRisk, earthquakeRisk, cycloneRisk, heatwaveRisk')
          /\ RunEffect(loc, clim)
    /\ UNCHANGED <<floodArgs, wildfireArgs, earthquakeArgs, cycloneArgs, now, floodRisk,
                   wildfireRisk, earthquakeRisk, cycloneRisk, pc, serviceVars, agriVars,
                   climateVars, mounted, ticked, lastUpdated, settled>>

\* the component unmounts: the cleanup of the last effect runs
Unmount ==
    /\ mounted /\ cycles = <<>> /\ effects > 0
    /\ mounted' = FALSE
    /\ timers' = clearInterval(timers, effects)
    /\ tornDown' = tornDown \cup {effects}
    /\ UNCHANGED <<engineVars, serviceVars, agriVars, climateVars, location, climateData,
                   effects, ticked, cycles, loading, error, lastUpdated, settled>>

\* ten minutes have passed for a registered interval: its callback runs
TimerTick ==
    /\ cycles = <<>> /\ Len(ticked) < MaxTicks
    /\ \E t \in timers :
          /\ ticked' = Append(ticked, [id |-> t.id, afterTeardown |-> t.id \in tornDown])
          /\ fetchAllData(t.location, t.climateData)
    /\ UNCHANGED <<engineVars, serviceVars, agriVars, climateVars, mounted, location,
                   climateData, timers, effects, tornDown, lastUpdated, settled>>

\* refresh(): the caller of the hook calls fetchAllData
refresh ==
    /\ mounted /\ effects > 0 /\ Len(cycles) < MaxCycles /\ Started < MaxStarted
    /\ fetchAllData(location, climateData)
    /\ UNCHANGED <<engineVars, serviceVars, agriVars, climateVars, mounted, location,
                   climateData, timers, effects, tornDown, ticked, lastUpdated, settled>>

\* the three fetchers of the call returned at their coordinate check, without a
\* request: Promise.all is fulfilled a fixed number of microtasks after the call
Immediate(c) ==
    /\ c.earthquakes.how = "no coordinates" /\ c.severe.how = "no coordinates"
    /\ c.precip.how = "no coordinates"

\* the suspended call that may resume next: calls that wait for no request resume in
\* the order they were made and before any call that waits for the provider, which
\* resumes whenever its last answer arrives
Resumable(i) ==
    IF Immediate(cycles[i])
    THEN \A j \in 1..(i - 1) : ~Immediate(cycles[j])
    ELSE \A j \in DOMAIN cycles : ~Immediate(cycles[j])

WithoutCycle(i) == SubSeq(cycles, 1, i - 1) \o SubSeq(cycles, i + 1, Len(cycles))

\* the suspended call i resumes after await Promise.all: lines 60-79 and the finally
\* block; no fetcher rejects, so the catch block is never entered
ResumeCycle(i) ==
    LET c == cycles[i]
        eqData == c.earthquakes.data
        severeData == c.severe.data
        precipData == c.precip.data
        currentWeather == CurrentWeatherOf(c.climateData)
        storms == [items |-> severeData.storms]
        alerts == [items |-> severeData.alerts]
    IN  /\ cycles' = WithoutCycle(i)
        /\ settled' = [earthquakes |-> c.earthquakes.how, severe |-> c.severe.how,
                       precip |-> c.precip.how, location |-> c.location,
                       cycle |-> c.started, overlapped |-> c.overlaps,
                       finished |-> Finished + 1]
        /\ IF mounted
           THEN /\ earthquakeArgs' = eqData
                /\ cycloneArgs' = [storms |-> storms, alerts |-> alerts]
                /\ floodArgs' = [precipData |-> precipData, currentWeather |-> currentWeather]
                /\ wildfireArgs' = [weather |-> currentWeather, precipData |-> precipData]
                /\ floodRisk' = calculateFloodRisk(precipData, currentWeather)
                /\ wildfireRisk' = calculateWildfireRisk(currentWeather, precipData)
                /\ earthquakeRisk' = calculateEarthquakeRisk(eqData, now)
                /\ cycloneRisk' = calculateCycloneRisk(storms, alerts)
                /\ Memos(floodRisk', wildfireRisk', earthquakeRisk', cycloneRisk',
                         heatwaveRisk)
                /\ lastUpdated' = [date |-> now]
                /\ loading' = FALSE
           ELSE UNCHANGED <<earthquakeArgs, cycloneArgs, floodArgs, wildfireArgs,
                            floodRisk, wildfireRisk, earthquakeRisk, cycloneRisk,
                            disasterRiskIndex, activeAlerts, lastUpdated, loading>>

CycleResumes ==
    /\ \E i \in DOMAIN cycles : Resumable(i) /\ ResumeCycle(i)
    /\ UNCHANGED <<heatwaveArg, heatwaveRisk, now, pc, serviceVars, agriVars, climateVars,
                   mounted, location, climateData, timers, effects, tornDown, ticked, error>>

\* the hook's state after the first render: the useState defaults and the memos
InitHook ==
    /\ location \in Locations /\ climateData \in ClimateInputs
    /\ mounted = TRUE
    /\ timers = {} /\ effects = 0 /\ tornDown = {} /\ ticked = <<>> /\ cycles = <<>>
    /\ loading = TRUE /\ error = Null /\ lastUpdated = Null /\ settled = Null
    /\ floodArgs = NoFloodArgs /\ wildfireArgs = NoWildfireArgs
    /\ earthquakeArgs = [items |-> <<>>]
    /\ cycloneArgs = [storms |-> [items |-> <<>>], alerts |-> [items |-> <<>>]]
    /\ heatwaveArg = HeatwaveOf(climateData)
    /\ now = NowStart
    /\ floodRisk = Null /\ wildfireRisk = Null /\ earthquakeRisk = Null
    /\ cycloneRisk = Null
    /\ heatwaveRisk = calculateHeatwaveRiskScore(heatwaveArg)
    /\ disasterRiskIndex =
          calculateDisasterRiskIndex(RisksOf(Null, Null, Null, Null, heatwaveRisk))
    /\ activeAlerts = <<>>
    /\ pc = "hook"
    /\ ServiceInit
    /\ AgriIdle /\ ClimateIdle

NextHook == MountEffect \/ Rerender \/ Unmount \/ TimerTick \/ refresh \/ CycleResumes

SpecHook == InitHook /\ [][NextHook]_vars

-----------------------------------------------------------------------------
(* The fetchers of agricultureService.js called at any time, by any caller,    *)
(* while the provider answers or fails and the clock advances.                 *)

\* history: the requests sent to the provider so far
RECURSIVE SumOver(_, _)
SumOver(f, S) ==
    IF S = {} THEN 0 ELSE LET k == CHOOSE x \in S : TRUE IN f[k] + SumOver(f, S \ {k})

AgriRequests == SumOver(agriContacts, AgriKeys)

\* the first slot without a suspended call
FirstIdleAgri(i) == IsNull(agriCalls[i]) /\ \A j \in 1..(i - 1) : ~IsNull(agriCalls[j])

\* getCachedOrFetch up to await fetchFn(): a fresh entry is returned, otherwise the
\* fetchFn sends its request
getCachedOrFetch(fetcher, key) ==
    IF AgriFresh(agriCache, key, agriClock)
    THEN /\ agriReturned' = [fetcher |-> fetcher, key |-> key, how |-> "cached",
                             data |-> agriCache[key].data, origin |-> agriOrigin[key]]
         /\ UNCHANGED <<agriClock, agriCache, agriCalls, agriContacts, agriOrigin>>
    ELSE /\ AgriRequests < MaxAgriContacts
         /\ \E i \in 1..MaxAgriCalls :
               /\ FirstIdleAgri(i)
               /\ agriCalls' = [agriCalls EXCEPT ![i] = [fetcher |-> fetcher, key |-> key]]
         /\ agriContacts' = [agriContacts EXCEPT ![key] = @ + 1]
         /\ UNCHANGED <<agriClock, agriCache, agriOrigin, agriReturned>>

agriFetchPrecipitationHistory ==
    /\ \E p \in AgriPlaces, days \in AgriDays :
          getCachedOrFetch("fetchPrecipitationHistory",
                           agriCacheKey("fetchPrecipitationHistory", p.lat, p.lon, days))
    /\ UNCHANGED <<engineVars, serviceVars, hookVars, climateVars>>

fetchCurrentConditions ==
    /\ \E p \in AgriPlaces :
          getCachedOrFetch("fetchCurrentConditions",
                           agriCacheKey("fetchCurrentConditions", p.lat, p.lon, 0))
    /\ UNCHANGED <<engineVars, serviceVars, hookVars, climateVars>>

fetchTerrainData ==
    /\ \E p \in AgriPlaces :
          getCachedOrFetch("fetchTerrainData",
                           agriCacheKey("fetchTerrainData", p.lat, p.lon, 0))
    /\ UNCHANGED <<engineVars, serviceVars, hookVars, climateVars>>

\* getCachedOrFetch after await fetchFn(): whatever the fetchFn returned is stored
\* with the time of the return
StoreAndReturn(i, data, how) ==
    LET call == agriCalls[i]
    IN  /\ agriCache' = [agriCache EXCEPT ![call.key] =
                            [data |-> data, timestamp |-> agriClock]]
        /\ agriOrigin' = [agriOrigin EXCEPT ![call.key] = how]
        /\ agriReturned' = [fetcher |-> call.fetcher, key |-> call.key, how |-> how,
                            data |-> data, origin |-> how]
        /\ agriCalls' = [agriCalls EXCEPT ![i] = Null]

\* the provider answers: the fetchFn builds its object
AgriResponds ==
    /\ \E i \in 1..MaxAgriCalls :
          /\ ~IsNull(agriCalls[i])
          /\ \E response \in AgriResponses(agriCalls[i].fetcher) :
                StoreAndReturn(i, AgriResultOf(agriCalls[i].fetcher, response), "fetched")
    /\ UNCHANGED <<agriClock, agriContacts>>
    /\ UNCHANGED <<engineVars, serviceVars, hookVars, climateVars>>

\* the request fails or the answer is not ok: the fetchFn catches it and returns
\* its fallback
AgriFails ==
    /\ \E i \in 1..MaxAgriCalls :
          /\ ~IsNull(agriCalls[i])
          /\ StoreAndReturn(i, AgriFallback(agriCalls[i].fetcher), "failed")
    /\ UNCHANGED <<agriClock, agriContacts>>
    /\ UNCHANGED <<engineVars, serviceVars, hookVars, climateVars>>

AgriTick ==
    /\ agriClock < MaxAgriTime
    /\ agriClock' = agriClock + 1
    /\ UNCHANGED <<agriCache, agriCalls, agriContacts, agriOrigin, agriReturned>>
    /\ UNCHANGED <<engineVars, serviceVars, hookVars, climateVars>>

InitAgri ==
    /\ floodArgs = NoFloodArgs /\ wildfireArgs = NoWildfireArgs /\ earthquakeArgs = Null
    /\ cycloneArgs = NoCycloneArgs /\ heatwaveArg = Null
    /\ now = NowStart
    /\ floodRisk = Null /\ wildfireRisk = Null /\ earthquakeRisk = Null
    /\ cycloneRisk = Null /\ heatwaveRisk = Null
    /\ disasterRiskIndex = calculateDisasterRiskIndex(RisksOf(Null, Null, Null, Null, Null))
    /\ activeAlerts = <<>>
    /\ pc = "heatwave"
    /\ ServiceInit
    /\ HookIdle
    /\ AgriIdle /\ ClimateIdle

NextAgri ==
    \/ agriFetchPrecipitationHistory \/ fetchCurrentConditions \/ fetchTerrainData
    \/ AgriResponds \/ AgriFails \/ AgriTick

SpecAgri == InitAgri /\ [][NextAgri]_vars

-----------------------------------------------------------------------------
(* useClimateData used by a component whose coords and isActive change, whose   *)
(* refresh is called and whose fetches settle at any time.  What the fetchers   *)
(* of climateService.js deliver is told apart by the place it is for.           *)

MaxControllers == 3
MaxActivations == 2

ClimateCoordinates ==
    {Null, [lat |-> 28614, lon |-> 77209], [lat |-> 40713, lon |-> 74006]}

\* controller.abort() that leaves the signal as it is
abortNothing(cs, ref) == cs

\* if (controllerRef.current) controllerRef.current.abort()
abort(cs, ref) == IF ref = 0 THEN cs ELSE [cs EXCEPT ![ref] = TRUE]

\* fetchAll after the await without the test of signal.aborted
ClimateWritesUnchecked(state, aborted, coords, signal, weatherOk, aqiOk, alertsOk) ==
    [state EXCEPT
        !.weather = IF weatherOk THEN [weatherFor |-> coords] ELSE @,
        !.airQuality = IF aqiOk THEN [airQualityFor |-> coords] ELSE @,
        !.alerts = IF alertsOk THEN [alertsFor |-> coords] ELSE @,
        !.error = IF weatherOk \/ aqiOk \/ alertsOk THEN @
                  ELSE [message |-> "Failed to fetch climate data. Please try again."],
        !.lastUpdated = IF weatherOk \/ aqiOk \/ alertsOk THEN [date |-> signal] ELSE @,
        !.loading = FALSE]

\* the state after lines 464-502 of a fetchAll call whose signal.aborted reads aborted
\* and whose three fetches were fulfilled or not; Promise.allSettled does not reject,
\* so the catch block is never entered; new Date() is told apart by the call
ClimateWrites(state, aborted, coords, signal, weatherOk, aqiOk, alertsOk) ==
    IF aborted THEN state
    ELSE [state EXCEPT
        !.weather = IF weatherOk THEN [weatherFor |-> coords] ELSE @,
        !.airQuality = IF aqiOk THEN [airQualityFor |-> coords] ELSE @,
        !.alerts = IF alertsOk THEN [alertsFor |-> coords] ELSE @,
        !.error = IF weatherOk \/ aqiOk \/ alertsOk THEN @
                  ELSE [message |-> "Failed to fetch climate data. Please try again."],
        !.lastUpdated = IF weatherOk \/ aqiOk \/ alertsOk THEN [date |-> signal] ELSE @,
        !.loading = FALSE]

\* fetchAll up to await Promise.allSettled, as created for coords c, called when the
\* controllers are cs; a state setter of an unmounted component does nothing
fetchAll(c, cs) ==
    IF NoCoordinates(c)
    THEN /\ climateState' =
               IF climateMounted
               THEN [climateState EXCEPT
                        !.error = [message |-> "Location required for climate data"]]
               ELSE climateState
         /\ controllers' = cs
         /\ UNCHANGED <<controllerRef, fetches>>
    ELSE /\ Len(cs) < MaxControllers
         /\ controllers' = Append(abort(cs, controllerRef), FALSE)
         /\ controllerRef' = Len(cs) + 1
         /\ climateState' =
               IF climateMounted
               THEN [climateState EXCEPT !.loading = TRUE, !.error = Null]
               ELSE climateState
         /\ fetches' = fetches \cup {[signal |-> Len(cs) + 1, coords |-> c]}

\* the effect of lines 506-522 for the arguments c and active, run when the intervals
\* are ts and the controllers are cs
ClimateEffect(c, active, ts, cs) ==
    IF ~active
    THEN /\ intervals' = ts /\ controllers' = cs
         /\ UNCHANGED <<climateState, controllerRef, intervalRef, fetches>>
    ELSE /\ intervalRef < MaxActivations
         /\ fetchAll(c, cs)
         /\ intervalRef' = intervalRef + 1
         /\ intervals' = ts \cup {[id |-> intervalRef + 1, coords |-> c]}

\* the effect has not run since the first render
BeforeEffect == climateMounted /\ isActive /\ intervalRef = 0

\* after the first render of an active tab the effect runs
ClimateMountEffect ==
    /\ BeforeEffect
    /\ ClimateEffect(climateCoords, isActive, intervals, controllers)
    /\ UNCHANGED <<climateMounted, climateCoords, isActive, resumed>>
    /\ UNCHANGED <<engineVars, serviceVars, hookVars, agriVars>>

\* the dependencies [isActive, fetchAll] of the effect differ: fetchAll is created
\* anew when coords?.lat or coords?.lon changes
DepsChange(c, active) ==
    \/ active # isActive
    \/ IsNull(c) # IsNull(climateCoords)
    \/ ~IsNull(c) /\ ~IsNull(climateCoords) /\ c # climateCoords

\* the component renders with other arguments: the cleanup of the previous effect,
\* if it was set up, clears the interval and aborts the controller; then the effect runs
ClimateRerender ==
    /\ climateMounted /\ ~BeforeEffect
    /\ \E c \in ClimateCoordinates, active \in BOOLEAN :
          /\ DepsChange(c, active)
          /\ climateCoords' = c
          /\ isActive' = active
          /\ IF isActive
             THEN ClimateEffect(c, active, {t \in intervals : t.id # intervalRef},
                                abort(controllers, controllerRef))
             ELSE ClimateEffect(c, active, intervals, controllers)
    /\ UNCHANGED <<climateMounted, resumed>>
    /\ UNCHANGED <<engineVars, serviceVars, hookVars, agriVars>>

\* the component unmounts: the cleanup of the effect runs, if it was set up
ClimateUnmount ==
    /\ climateMounted /\ ~BeforeEffect
    /\ climateMounted' = FALSE
    /\ intervals' = IF isActive THEN {t \in intervals : t.id # intervalRef} ELSE intervals
    /\ controllers' = IF isActive THEN abort(controllers, controllerRef) ELSE controllers
    /\ UNCHANGED <<climateCoords, isActive, climateState, controllerRef, intervalRef,
                   fetches, resumed>>
    /\ UNCHANGED <<engineVars, serviceVars, hookVars, agriVars>>

\* ten minutes have passed for a registered interval: its fetchAll is called
ClimateInterval ==
    /\ \E t \in intervals : fetchAll(t.coords, controllers)
    /\ UNCHANGED <<climateMounted, climateCoords, isActive, intervalRef, intervals,
                   resumed>>
    /\ UNCHANGED <<engineVars, serviceVars, hookVars, agriVars>>

\* refresh(): the caller of the hook calls the fetchAll of the last render
ClimateRefresh ==
    /\ climateMounted /\ ~BeforeEffect
    /\ fetchAll(climateCoords, controllers)
    /\ UNCHANGED <<climateMounted, climateCoords, isActive, intervalRef, intervals,
                   resumed>>
    /\ UNCHANGED <<engineVars, serviceVars, hookVars, agriVars>>

\* the three fetches of a suspended fetchAll have settled, fulfilled or rejected, and
\* the call resumes
FetchAllResumes ==
    /\ \E f \in fetches, weatherOk \in BOOLEAN, aqiOk \in BOOLEAN, alertsOk \in BOOLEAN :
          /\ resumed' = [signal |-> f.signal, aborted |-> controllers[f.signal]]
          /\ climateState' =
                IF climateMounted
                THEN ClimateWrites(climateState, controllers[f.signal], f.coords,
                                   f.signal, weatherOk, aqiOk, alertsOk)
                ELSE climateState
          /\ fetches' = fetches \ {f}
    /\ UNCHANGED <<climateMounted, climateCoords, isActive, controllerRef, intervalRef,
                   controllers, intervals>>
    /\ UNCHANGED <<engineVars, serviceVars, hookVars, agriVars>>

\* the hook's state after the first render: the useState defaults and empty refs
InitClimate ==
    /\ floodArgs = NoFloodArgs /\ wildfireArgs = NoWildfireArgs /\ earthquakeArgs = Null
    /\ cycloneArgs = NoCycloneArgs /\ heatwaveArg = Null
    /\ now = NowStart
    /\ floodRisk = Null /\ wildfireRisk = Null /\ earthquakeRisk = Null
    /\ cycloneRisk = Null /\ heatwaveRisk = Null
    /\ disasterRiskIndex = calculateDisasterRiskIndex(RisksOf(Null, Null, Null, Null, Null))
    /\ activeAlerts = <<>>
    /\ pc = "heatwave"
    /\ ServiceInit
    /\ HookIdle
    /\ AgriIdle
    /\ climateMounted = TRUE
    /\ climateCoords \in ClimateCoordinates /\ isActive \in BOOLEAN
    /\ climateState = ClimateDefaults
    /\ controllerRef = 0 /\ intervalRef = 0
    /\ controllers = <<>> /\ intervals = {} /\ fetches = {}
    /\ resumed = Null

NextClimate ==
    \/ ClimateMountEffect \/ ClimateRerender \/ ClimateUnmount \/ ClimateInterval
    \/ ClimateRefresh \/ FetchAllResumes

SpecClimate == InitClimate /\ [][NextClimate]_vars

-----------------------------------------------------------------------------
\* C13: the refresh never overlaps itself: under any interleaving of interval
\* callbacks, refresh() calls and location changes at most one fetchAllData
\* cycle is in flight.
C13_OneCycleInFlight == Len(cycles) <= 1

\* C14: the periodic refresh is cancellable: no interval callback runs for an
\* effect whose cleanup has been called, on unmount or on a change of the
\* dependencies.
C14_NoTickAfterTeardown == \A i \in DOMAIN ticked : ~ticked[i].afterTeardown

\* an effect has been torn down and the interval of a later effect has fired
C14_Witness ==
    /\ tornDown # {}
    /\ \E i \in DOMAIN ticked : ticked[i].id > 1 /\ (ticked[i].id - 1) \in tornDown

\* a fetch that brought no data of the provider
Unavailable(how) == how # "fetched"

\* C15: whenever a cycle has ended with data unavailable, at least one of its
\* three fetches having brought nothing from the provider, the hook shows a
\* non-null error next to the scores.
C15_ErrorSurfaced ==
    (/\ mounted /\ ~IsNull(settled) /\ cycles = <<>> /\ ~loading
     /\ \/ Unavailable(settled.earthquakes)
        \/ Unavailable(settled.severe)
        \/ Unavailable(settled.precip)) =>
        ~IsNull(error)

-----------------------------------------------------------------------------
\* the earthquake score as the specification words it, for the list, the event
\* taken as the strongest and the time of the call
StatedEarthquake(list, strongest, t) ==
    LET M == IF strongest.magnitude >= 60 THEN 40 ELSE IF strongest.magnitude >= 50 THEN 25
             ELSE IF strongest.magnitude >= 40 THEN 10 ELSE 0
        P == IF strongest.distance < 100 THEN 25 ELSE IF strongest.distance < 300 THEN 15
             ELSE IF strongest.distance < 500 THEN 5 ELSE 0
        recent == Cardinality({i \in DOMAIN list :
                                  t - list[i].time < DAY_MS /\ list[i].distance < 500})
        F == IF recent >= 5 THEN 20 ELSE IF recent >= 3 THEN 10 ELSE 0
        T == IF \E i \in DOMAIN list : list[i].tsunami /\ list[i].magnitude >= 70
             THEN 15 ELSE 0
    IN  Min(100, M + P + F + T)

\* the events of the list that no other event exceeds in magnitude
MaxMagnitude(list) ==
    {i \in DOMAIN list : \A j \in DOMAIN list : list[j].magnitude <= list[i].magnitude}

ScenarioQuake == [items |-> <<QuakeOf(65, 50, NowStart - 1, TRUE)>>]

\* C21: right after the earthquake scorer has been called, for a non-empty list
\* the score is min(100, M + P + F + T) for an event of maximum magnitude
\* (M 40/25/10 for magnitude >= 6/5/4, P 25/15/5 for distance < 100/300/500,
\* F 20/10 for >= 5 / >= 3 events of the last 24 h within 500 km, T 15 when any
\* event of the list has the tsunami flag and magnitude >= 7); an empty or
\* absent list gives 0, LOW; one M6.5 event at 50 km with the flag gives 65, HIGH.
C21_EarthquakeFormula ==
    (pc \in {"cyclone", "done"}) =>
        /\ (IsNull(earthquakeArgs) \/ earthquakeArgs.items = <<>>) =>
              (earthquakeRisk.score = 0 /\ earthquakeRisk.level = "LOW")
        /\ (~IsNull(earthquakeArgs) /\ earthquakeArgs.items # <<>>) =>
              /\ \E i \in MaxMagnitude(earthquakeArgs.items) :
                    earthquakeRisk.score =
                      StatedEarthquake(earthquakeArgs.items, earthquakeArgs.items[i], now)
              /\ earthquakeRisk.level = getRiskLevel(earthquakeRisk.score)
        /\ earthquakeArgs = ScenarioQuake =>
              (earthquakeRisk.score = 65 /\ earthquakeRisk.level = "HIGH")

\* a list has been scored whose strongest event has no tsunami flag while another
\* event of magnitude 7 has it, with five events of the last 24 hours
C21_Witness ==
    /\ pc = "done"
    /\ ~IsNull(earthquakeArgs) /\ Len(earthquakeArgs.items) >= 5
    /\ \E i \in DOMAIN earthquakeArgs.items :
          earthquakeArgs.items[i].tsunami /\ earthquakeArgs.items[i].magnitude >= 70
    /\ ~StrongestQuake(earthquakeArgs.items).tsunami
    /\ earthquakeRisk.score >= 15

-----------------------------------------------------------------------------
\* the cyclone score as the specification words it, for the storm taken as the
\* strongest (Null when there is no storm) and the alerts
StatedCyclone(strongest, alerts) ==
    LET S == IF IsNull(strongest) THEN 0
             ELSE IF strongest.category >= 3 THEN 50
             ELSE IF strongest.category \in {1, 2} THEN 35
             ELSE IF getStormCategory(strongest.windSpeed, strongest.windGusts).type
                       = "Tropical Storm" THEN 20
             ELSE 0
        G == IF IsNull(strongest) THEN 0
             ELSE IF strongest.windGusts > 120 THEN 25
             ELSE IF strongest.windGusts > 80 THEN 15 ELSE 0
        A == IF \E i \in DOMAIN alerts : alerts[i].severity = "HIGH" THEN 20
             ELSE IF alerts # <<>> THEN 10 ELSE 0
    IN  Min(100, S + G + A)

\* the storms of the list that no other storm exceeds in wind speed
MaxWindSpeed(storms) ==
    {i \in DOMAIN storms : \A j \in DOMAIN storms : storms[j].windSpeed <= storms[i].windSpeed}

\* C22: once the cyclone scorer has been called, its score is min(100, S + G + A)
\* for a storm of maximum wind speed (S 50 for category >= 3, 35 for category 1
\* or 2, 20 for a tropical storm of the classifier, else 0; G 25/15 for gusts
\* > 120 / > 80; A 20 with a HIGH alert, else 10 with any alert); without storms
\* and alerts the result is 0, LOW.
C22_CycloneFormula ==
    ~IsNull(cycloneRisk) =>
        LET storms == ItemsOf(cycloneArgs.storms)
            alerts == ItemsOf(cycloneArgs.alerts)
        IN  /\ storms = <<>> => cycloneRisk.score = StatedCyclone(Null, alerts)
            /\ storms # <<>> =>
                  \E i \in MaxWindSpeed(storms) :
                      cycloneRisk.score = StatedCyclone(storms[i], alerts)
            /\ cycloneRisk.level = getRiskLevel(cycloneRisk.score)
            /\ (storms = <<>> /\ alerts = <<>>) =>
                  (cycloneRisk.score = 0 /\ cycloneRisk.level = "LOW")

\* a tropical storm that is not the first of the list has been scored as the
\* strongest, with alerts none of which is HIGH
C22_Witness ==
    /\ ~IsNull(cycloneRisk)
    /\ Len(ItemsOf(cycloneArgs.storms)) = 2
    /\ StrongestStorm(ItemsOf(cycloneArgs.storms)) = ItemsOf(cycloneArgs.storms)[2]
    /\ ItemsOf(cycloneArgs.storms)[1].windSpeed < ItemsOf(cycloneArgs.storms)[2].windSpeed
    /\ ItemsOf(cycloneArgs.storms)[2].type = "Tropical Storm"
    /\ ItemsOf(cycloneArgs.alerts) # <<>>
    /\ \A i \in DOMAIN ItemsOf(cycloneArgs.alerts) :
          ItemsOf(cycloneArgs.alerts)[i].severity = "MODERATE"
    /\ cycloneRisk.score = 20 + 15 + 10

-----------------------------------------------------------------------------
\* the heatwave result as the specification words it
StatedHeatwave(heatwave) ==
    IF IsNull(heatwave) THEN [score |-> 0, level |-> "LOW"]
    ELSE IF heatwave.level = "HIGH" THEN [score |-> 75, level |-> "HIGH"]
    ELSE IF heatwave.level = "MODERATE" THEN [score |-> 40, level |-> "MODERATE"]
    ELSE IF heatwave.level = "LOW" THEN [score |-> 10, level |-> "LOW"]
    ELSE [score |-> 0, level |-> "LOW"]

-----------------------------------------------------------------------------
\* two results of one scorer that have the same level have the same reasoning
\* and the same recommendations
SameAdvice(a, b) ==
    a.level = b.level =>
        (a.reasoning = b.reasoning /\ a.recommendations = b.recommendations)

\* C24: for each scorer, the result obtained on the observation of the run and
\* the result on any other present observation that has the same level carry
\* the same reasoning string and the same recommendations list.
C24_AdviceByLevel ==
    pc = "done" =>
        /\ ~IsNull(floodArgs.precipData) =>
              \A x \in FloodInputs :
                  ~IsNull(x.precipData) =>
                      SameAdvice(floodRisk, calculateFloodRisk(x.precipData, x.currentWeather))
        /\ ~IsNull(wildfireArgs.weather) =>
              \A x \in WildfireInputs :
                  ~IsNull(x.weather) =>
                      SameAdvice(wildfireRisk, calculateWildfireRisk(x.weather, x.precipData))
        /\ (~IsNull(earthquakeArgs) /\ earthquakeArgs.items # <<>>) =>
              \A x \in EarthquakeInputs :
                  (~IsNull(x) /\ x.items # <<>>) =>
                      SameAdvice(earthquakeRisk, calculateEarthquakeRisk(x, now))
        /\ (ItemsOf(cycloneArgs.storms) # <<>> \/ ItemsOf(cycloneArgs.alerts) # <<>>) =>
              \A x \in CycloneInputs :
                  (ItemsOf(x.storms) # <<>> \/ ItemsOf(x.alerts) # <<>>) =>
                      SameAdvice(cycloneRisk, calculateCycloneRisk(x.storms, x.alerts))

-----------------------------------------------------------------------------
(* Claims about the precipitation history and the cache of the agriculture     *)
(* service                                                                     *)

\* the length of the longest suffix of the series whose days are all under 1 mm, a
\* missing day counted as 0; oneMm is 1 mm in the unit of the series
DrySuffix(series, oneMm) ==
    LET n == Len(series)
        dry == {k \in 0..n : \A i \in (n - k + 1)..n : OrZero(series[i]) < oneMm}
    IN  CHOOSE k \in dry : \A j \in dry : j <= k

CarriesDryDays(history, oneMm) ==
    /\ "consecutiveDryDays" \in DOMAIN history
    /\ history.consecutiveDryDays = DrySuffix(history.precipitation, oneMm)

\* the history the fetchPrecipitationHistory of agricultureService.js builds from the
\* provider's answer carries the trailing dry days
AgriHistoryCarries ==
    (~IsNull(agriReturned) /\ agriReturned.fetcher = "fetchPrecipitationHistory"
       /\ agriReturned.how = "fetched")
    => CarriesDryDays(agriReturned.data, 10)

\* the same of the fetchPrecipitationHistory of disasterService.js
DisasterHistoryCarries ==
    (~IsNull(returned) /\ returned.dataset = "precip-history" /\ returned.how = "fetched")
    => CarriesDryDays(returned.data, 1)

\* C25: the precipitation history fetchPrecipitationHistory returns carries
\* consecutiveDryDays, the length of the longest suffix of the daily series whose days
\* all have less than 1 mm: 0 when the most recent day is wet, the length of the
\* series when every day is dry
C25_DryDaysCarried == AgriHistoryCarries /\ DisasterHistoryCarries

\* C30: a call answered from the cache is never answered with the fallback of a failed
\* request: after a failed call the next call for the key contacts the provider again
C30_FallbackNotServed ==
    (~IsNull(agriReturned) /\ agriReturned.how = "cached")
    => agriReturned.origin # "failed"

\* a history with a wet day before two dry days has been fetched and counted
AgriDryDaysWitness ==
    /\ ~IsNull(agriReturned) /\ agriReturned.how = "fetched"
    /\ agriReturned.fetcher = "fetchPrecipitationHistory"
    /\ agriReturned.data.precipitation = <<30, 0, 9>>
    /\ agriReturned.data.consecutiveDryDays = 2

-----------------------------------------------------------------------------
(* Claims about the refresh cycles of useDisasterData *)

\* C26: a refresh cycle of useDisasterData for a location with latitude and longitude
\* calls the three fetchers with arguments that meet their coordinate precondition, so
\* that what it stores and scores is derived from the providers' responses and is not
\* the default a fetcher returns without coordinates
C26_CoordinatesPassed ==
    ~IsNull(settled)
    => /\ settled.earthquakes # "no coordinates"
       /\ settled.severe # "no coordinates"
       /\ settled.precip # "no coordinates"

-----------------------------------------------------------------------------
(* Claims about the fetch cycles of useClimateData *)

StateWritten ==
    \/ climateState'.weather # climateState.weather
    \/ climateState'.airQuality # climateState.airQuality
    \/ climateState'.alerts # climateState.alerts
    \/ climateState'.error # climateState.error
    \/ climateState'.lastUpdated # climateState.lastUpdated

\* C28: a fetch cycle of useClimateData that resumes after its AbortController was
\* aborted writes none of weather, airQuality, alerts, error and lastUpdated; a cycle
\* that writes them after its fetches is the one of the current controller
C28_AbortedNeverWrites ==
    [][resumed' # resumed
         => /\ resumed'.aborted => ~StateWritten
            /\ StateWritten => resumed'.signal = controllerRef]_vars

\* a cycle has resumed after its abort while the state holds what a later cycle wrote
C28_Witness ==
    /\ ~IsNull(resumed) /\ resumed.aborted
    /\ ~IsNull(climateState.lastUpdated)
    /\ climateState.lastUpdated.date > resumed.signal

\* C29: loading of useClimateData is true only while a fetch cycle that has not been
\* aborted is in flight: once none remains, also after the tab was deactivated
\* during a fetch, loading is false
C29_LoadingOnlyInFlight ==
    (climateMounted /\ climateState.loading)
    => \E f \in fetches : ~controllers[f.signal]

====
